---- MODULE Spec2Model ----
(***************************************************************************)
(* A model of the Sokoban engine of SokobanQLearning                       *)
(* (include/Sokoban.hpp): maze parsing, Move, Restart, the derived data    *)
(* recomputed by UpdateData and the dead-position detector CheckFailed.    *)
(* Positions are <<line, col>> pairs, 0-based as in the code.              *)
(***************************************************************************)
EXTENDS Integers, Sequences, FiniteSets, TLC

(***************************************************************************)
(* Program constants                                                       *)
(***************************************************************************)
NoDirection == 0
Up == 1
Left == 2
Right == 4
Down == 8

IsWall == 0
IsFloor == 1
IsGoal == 2
IsBox == 4
IsPlayer == 8

\* the template argument of Game<StateBits> used by main
StateBits == 64
\* the per-axis limit of the parser
MaxAxis == 125

NoError == "none"

(***************************************************************************)
(* Bounds of the model                                                     *)
(***************************************************************************)
\* accepted moves per episode (TimeElapsed is capped by the Move guard)
MaxTime == 3
\* boxes placed in a generated maze
MaxBoxes == 2
\* goals placed beyond the number of boxes
MaxExtraGoals == 0

(***************************************************************************)
(* Integer helpers: the bit operations the code uses                       *)
(***************************************************************************)
RECURSIVE Pow2(_)
Pow2(n) == IF n <= 0 THEN 1 ELSE 2 * Pow2(n - 1)

RECURSIVE BitAnd(_, _)
BitAnd(a, b) ==
    IF a = 0 \/ b = 0 THEN 0
    ELSE (IF a % 2 = 1 /\ b % 2 = 1 THEN 1 ELSE 0) + 2 * BitAnd(a \div 2, b \div 2)

RECURSIVE BitOr(_, _)
BitOr(a, b) ==
    IF a = 0 THEN b
    ELSE IF b = 0 THEN a
    ELSE (IF a % 2 = 1 \/ b % 2 = 1 THEN 1 ELSE 0) + 2 * BitOr(a \div 2, b \div 2)

\* SizeInt is std::int_least16_t
SizeWidth == 16

\* A std::bitset<StateBits> is modelled as the set of the positions of its
\* set bits.  StateType(n) for a value n >= 0 of type SizeInt:
ToBits(n) == {i \in 0 .. SizeWidth - 1 : i < StateBits /\ (n \div Pow2(i)) % 2 = 1}

\* std::bitset<StateBits>::operator<< : bits shifted past the top are lost
ShiftLeft(bits, n) == {i + n : i \in {j \in bits : j + n < StateBits}}

AllDirections == <<Up, Left, Right, Down>>

Movement(direction) ==
    IF direction = Up THEN <<-1, 0>>
    ELSE IF direction = Left THEN <<0, -1>>
    ELSE IF direction = Right THEN <<0, 1>>
    ELSE IF direction = Down THEN <<1, 0>>
    ELSE <<0, 0>>

\* operator< of std::pair, the order of std::set<Pos>
PosLess(p, q) == p[1] < q[1] \/ (p[1] = q[1] /\ p[2] < q[2])

\* iteration order of a std::set<Pos>
RECURSIVE SetOrder(_)
SetOrder(S) ==
    IF S = {} THEN <<>>
    ELSE LET m == CHOOSE p \in S : \A q \in S \ {p} : PosLess(p, q)
         IN <<m>> \o SetOrder(S \ {m})

(***************************************************************************)
(* Game::Game: the maze parser                                             *)
(***************************************************************************)
RECURSIVE StripFront(_)
StripFront(maze) ==
    IF Len(maze) > 0 /\ Head(maze) = "\n" THEN StripFront(Tail(maze)) ELSE maze

RECURSIVE StripBack(_)
StripBack(maze) ==
    IF Len(maze) > 0 /\ maze[Len(maze)] = "\n"
    THEN StripBack(SubSeq(maze, 1, Len(maze) - 1))
    ELSE maze

ParseStart ==
    [line |-> 0, col |-> -1, Height |-> 1, Width |-> 0, floor |-> <<>>,
     PlayerPos0 |-> <<-1, -1>>, BoxPos0 |-> {}, GoalPos |-> {}, error |-> NoError]

\* one iteration of the loop over the characters of the maze; a throw is
\* recorded in error and ends the loop
ParseChar(st, c) ==
    IF st.error # NoError THEN st
    ELSE IF c = "\r" THEN st
    ELSE IF c = "\n" THEN
        LET line == st.line + 1
        IN IF line >= MaxAxis
           THEN [st EXCEPT !.line = line, !.col = -1, !.error = "Maze Too Large"]
           ELSE [st EXCEPT !.line = line, !.col = -1,
                           !.Height = IF line >= st.Height THEN line + 1 ELSE st.Height]
    ELSE
        LET col == st.col + 1
            p == <<st.line, col>>
            s1 == [st EXCEPT !.col = col,
                             !.Width = IF col >= st.Width THEN col + 1 ELSE st.Width]
            has_player == st.PlayerPos0[1] + st.PlayerPos0[2] >= 0
        IN IF col >= MaxAxis THEN [st EXCEPT !.col = col, !.error = "Maze Too Large"]
           ELSE IF c = "." THEN [s1 EXCEPT !.floor = Append(@, p)]
           ELSE IF c = "*" THEN
               IF has_player THEN [s1 EXCEPT !.floor = Append(@, p), !.error = "Too Many Players"]
               ELSE [s1 EXCEPT !.floor = Append(@, p), !.PlayerPos0 = p]
           ELSE IF c = "$" THEN [s1 EXCEPT !.floor = Append(@, p), !.GoalPos = @ \cup {p}]
           ELSE IF c = "&" THEN [s1 EXCEPT !.floor = Append(@, p), !.BoxPos0 = @ \cup {p}]
           ELSE IF c = "+" THEN
               IF has_player THEN [s1 EXCEPT !.floor = Append(@, p), !.error = "Too Many Players"]
               ELSE [s1 EXCEPT !.floor = Append(@, p), !.PlayerPos0 = p, !.GoalPos = @ \cup {p}]
           ELSE IF c = "@" THEN
               [s1 EXCEPT !.floor = Append(@, p), !.BoxPos0 = @ \cup {p}, !.GoalPos = @ \cup {p}]
           ELSE s1

\* the loop over the characters lo .. hi of the maze, run as its first half
\* followed by its second half
RECURSIVE ParseLoop(_, _, _, _)
ParseLoop(maze, lo, hi, st) ==
    IF st.error # NoError THEN st
    ELSE IF lo > hi THEN st
    ELSE IF lo = hi THEN ParseChar(st, maze[lo])
    ELSE ParseLoop(maze, (lo + hi) \div 2 + 1, hi,
                   ParseLoop(maze, lo, (lo + hi) \div 2, st))

\* the loop of FloorBits stopped one bit early (floor_remain > 1)
RECURSIVE FloorBitsTooFew(_)
FloorBitsTooFew(floor_remain) ==
    IF floor_remain <= 1 THEN 0 ELSE 1 + FloorBitsTooFew(floor_remain \div 2)

\* for (floor_remain = floor.size() - 1; floor_remain; floor_remain >>= 1) ++FloorBits
RECURSIVE FloorBitsLoop(_)
FloorBitsLoop(floor_remain) ==
    IF floor_remain = 0 THEN 0 ELSE 1 + FloorBitsLoop(floor_remain \div 2)

\* while (!floor.empty()) FloorIndex[p.first][p.second] = ++index
RECURSIVE FloorIndexLoop(_, _, _)
FloorIndexLoop(table, floor, k) ==
    IF k > Len(floor) THEN table
    ELSE FloorIndexLoop([table EXCEPT ![floor[k][1]][floor[k][2]] = k - 1], floor, k + 1)

\* the table resized to Height x Width cells of -1, then filled from the queue
FloorIndexTable(Height, Width, floor) ==
    FloorIndexLoop([i \in 0 .. Height - 1 |-> [j \in 0 .. Width - 1 |-> -1]], floor, 1)

\* the constructor that asks for more goals than boxes
ParseMazeStrictGoals(maze) ==
    LET text == StripBack(StripFront(maze))
        st == ParseLoop(text, 1, Len(text), ParseStart)
        bits == FloorBitsLoop(Len(st.floor) - 1)
        error ==
            IF st.error # NoError THEN st.error
            ELSE IF st.PlayerPos0[1] + st.PlayerPos0[2] = -2 THEN "No Player"
            ELSE IF st.BoxPos0 = {} THEN "No Box"
            ELSE IF Cardinality(st.BoxPos0) >= Cardinality(st.GoalPos) THEN "Too Few Goals"
            ELSE IF bits * (Cardinality(st.BoxPos0) + 1) > StateBits THEN "Maze Too Large"
            ELSE NoError
    IN [error |-> error,
        Height |-> st.Height, Width |-> st.Width,
        FloorBits |-> IF error = NoError THEN bits ELSE 0,
        PlayerPos0 |-> st.PlayerPos0, BoxPos0 |-> st.BoxPos0, GoalPos |-> st.GoalPos,
        FloorIndex |-> IF error = NoError
                       THEN FloorIndexTable(st.Height, st.Width, st.floor)
                       ELSE <<>>]

\* the parse and the checks of the constructor, up to the call of DoRestart
ParseMaze(maze) ==
    LET text == StripBack(StripFront(maze))
        st == ParseLoop(text, 1, Len(text), ParseStart)
        bits == FloorBitsLoop(Len(st.floor) - 1)
        error ==
            IF st.error # NoError THEN st.error
            ELSE IF st.PlayerPos0[1] + st.PlayerPos0[2] = -2 THEN "No Player"
            ELSE IF st.BoxPos0 = {} THEN "No Box"
            ELSE IF Cardinality(st.BoxPos0) > Cardinality(st.GoalPos) THEN "Too Few Goals"
            ELSE IF bits * (Cardinality(st.BoxPos0) + 1) > StateBits THEN "Maze Too Large"
            ELSE NoError
    IN [error |-> error,
        Height |-> st.Height, Width |-> st.Width,
        FloorBits |-> IF error = NoError THEN bits ELSE 0,
        PlayerPos0 |-> st.PlayerPos0, BoxPos0 |-> st.BoxPos0, GoalPos |-> st.GoalPos,
        FloorIndex |-> IF error = NoError
                       THEN FloorIndexTable(st.Height, st.Width, st.floor)
                       ELSE <<>>]

(***************************************************************************)
(* The engine's private helpers.  g is a record of the fields of a Game.   *)
(***************************************************************************)
CheckFloor(g, line, col) ==
    IF line < 0 \/ line >= g.Height THEN FALSE
    ELSE IF col < 0 \/ col >= g.Width THEN FALSE
    ELSE g.FloorIndex[line][col] >= 0

HasFlag(g, line, col, flag) == BitAnd(g.Maze[line][col], flag) # 0

\* CheckDirection that only asks for floor behind a pushed box
CheckDirectionChain(g, direction, line, col, can_push_box) ==
    LET movement == Movement(direction)
        l == line + movement[1]
        c == col + movement[2]
    IN IF ~CheckFloor(g, l, c) THEN FALSE
       ELSE IF HasFlag(g, l, c, IsBox)
            THEN IF can_push_box THEN CheckFloor(g, l + movement[1], c + movement[2]) ELSE FALSE
            ELSE TRUE

RECURSIVE CheckDirection(_, _, _, _, _)
CheckDirection(g, direction, line, col, can_push_box) ==
    LET movement == Movement(direction)
        l == line + movement[1]
        c == col + movement[2]
    IN IF ~CheckFloor(g, l, c) THEN FALSE
       ELSE IF HasFlag(g, l, c, IsBox)
            THEN IF can_push_box THEN CheckDirection(g, direction, l, c, FALSE) ELSE FALSE
            ELSE TRUE

\* vis is passed by reference: the result carries the returned value and
\* the set as the call leaves it
RECURSIVE BoxStuck(_, _, _, _, _)
BoxStuck(g, line, col, is_horizontal, vis) ==
    LET current == <<<<line, col>>, is_horizontal>>
        n1 == IF is_horizontal THEN <<line, col - 1>> ELSE <<line - 1, col>>
        n2 == IF is_horizontal THEN <<line, col + 1>> ELSE <<line + 1, col>>
        vis1 == vis \cup {current}
    IN IF current \in vis THEN [ret |-> TRUE, vis |-> vis \ {current}]
       ELSE IF ~CheckFloor(g, n1[1], n1[2]) \/ ~CheckFloor(g, n2[1], n2[2])
            THEN [ret |-> TRUE, vis |-> vis1 \ {current}]
       ELSE LET r1 == IF HasFlag(g, n1[1], n1[2], IsBox)
                      THEN BoxStuck(g, n1[1], n1[2], ~is_horizontal, vis1)
                      ELSE [ret |-> FALSE, vis |-> vis1]
            IN IF r1.ret THEN [ret |-> TRUE, vis |-> r1.vis \ {current}]
               ELSE LET r2 == IF HasFlag(g, n2[1], n2[2], IsBox)
                              THEN BoxStuck(g, n2[1], n2[2], ~is_horizontal, r1.vis)
                              ELSE [ret |-> FALSE, vis |-> r1.vis]
                    IN [ret |-> r2.ret, vis |-> r2.vis \ {current}]

\* one of the four loops of WallStuck: walk from cell p by step while the
\* cell is floor; wall is the offset of the cell that must not be floor
RECURSIVE WallWalk(_, _, _, _, _)
WallWalk(g, p, step, wall, acc) ==
    IF ~CheckFloor(g, p[1], p[2]) THEN acc
    ELSE IF CheckFloor(g, p[1] + wall[1], p[2] + wall[2]) THEN [acc EXCEPT !.open = TRUE]
    ELSE WallWalk(g, <<p[1] + step[1], p[2] + step[2]>>, step, wall,
                  [acc EXCEPT !.box_count = @ + (IF HasFlag(g, p[1], p[2], IsBox) THEN 1 ELSE 0),
                              !.goal_count = @ + (IF HasFlag(g, p[1], p[2], IsGoal) THEN 1 ELSE 0)])

\* WallStuck that looks for the opening on the side of the given direction
WallStuckWrongSide(g, line, col, side) ==
    LET movement == Movement(side)
        start == [box_count |-> IF HasFlag(g, line, col, IsBox) THEN 1 ELSE 0,
                  goal_count |-> IF HasFlag(g, line, col, IsGoal) THEN 1 ELSE 0,
                  open |-> FALSE]
        step == IF movement[1] # 0 THEN <<0, 1>> ELSE <<1, 0>>
        wall == IF movement[1] # 0 THEN <<movement[1], 0>> ELSE <<0, movement[2]>>
        back == WallWalk(g, <<line - step[1], col - step[2]>>, <<-step[1], -step[2]>>, wall, start)
        forth == WallWalk(g, <<line + step[1], col + step[2]>>, step, wall, back)
    IN IF back.open THEN FALSE
       ELSE IF forth.open THEN FALSE
       ELSE forth.box_count > forth.goal_count

\* WallStuck that walks the run on one side of the box only
WallStuckOneWay(g, line, col, side) ==
    LET movement == Movement(side)
        start == [box_count |-> IF HasFlag(g, line, col, IsBox) THEN 1 ELSE 0,
                  goal_count |-> IF HasFlag(g, line, col, IsGoal) THEN 1 ELSE 0,
                  open |-> FALSE]
        step == IF movement[1] # 0 THEN <<0, 1>> ELSE <<1, 0>>
        wall == IF movement[1] # 0 THEN <<-movement[1], 0>> ELSE <<0, -movement[2]>>
        forth == WallWalk(g, <<line + step[1], col + step[2]>>, step, wall, start)
    IN IF forth.open THEN FALSE
       ELSE forth.box_count > forth.goal_count

WallStuck(g, line, col, side) ==
    LET movement == Movement(side)
        start == [box_count |-> IF HasFlag(g, line, col, IsBox) THEN 1 ELSE 0,
                  goal_count |-> IF HasFlag(g, line, col, IsGoal) THEN 1 ELSE 0,
                  open |-> FALSE]
        step == IF movement[1] # 0 THEN <<0, 1>> ELSE <<1, 0>>
        wall == IF movement[1] # 0 THEN <<-movement[1], 0>> ELSE <<0, -movement[2]>>
        back == WallWalk(g, <<line - step[1], col - step[2]>>, <<-step[1], -step[2]>>, wall, start)
        forth == WallWalk(g, <<line + step[1], col + step[2]>>, step, wall, back)
    IN IF back.open THEN FALSE
       ELSE IF forth.open THEN FALSE
       ELSE forth.box_count > forth.goal_count

\* vis is passed by reference, as in BoxStuck; k is the position in the
\* loop over {Up, Left, Right, Down}
RECURSIVE CanPushAny(_, _, _, _)

\* the loop of CanPushAny that takes a box next to the cell for pushable
RECURSIVE CanPushAnyLoopTouch(_, _, _, _, _)
CanPushAnyLoopTouch(g, line, col, k, acc) ==
    IF k > Len(AllDirections) THEN acc
    ELSE LET d == AllDirections[k]
             movement == Movement(d)
             l == line + movement[1]
             c == col + movement[2]
             next ==
                 IF CheckDirection(g, d, line, col, FALSE)
                 THEN IF acc.ret THEN acc
                      ELSE CanPushAny(g, l, c, acc.vis)
                 ELSE [ret |-> acc.ret \/ (CheckFloor(g, l, c) /\ HasFlag(g, l, c, IsBox)),
                       vis |-> acc.vis]
         IN CanPushAnyLoopTouch(g, line, col, k + 1, next)

RECURSIVE CanPushAnyLoop(_, _, _, _, _)
CanPushAnyLoop(g, line, col, k, acc) ==
    IF k > Len(AllDirections) THEN acc
    ELSE LET d == AllDirections[k]
             movement == Movement(d)
             next ==
                 IF CheckDirection(g, d, line, col, FALSE)
                 THEN IF acc.ret THEN acc
                      ELSE CanPushAny(g, line + movement[1], col + movement[2], acc.vis)
                 ELSE [ret |-> acc.ret \/ CheckDirection(g, d, line, col, TRUE), vis |-> acc.vis]
         IN CanPushAnyLoop(g, line, col, k + 1, next)

\* CanPushAny that looks for a push from the cell alone, without the walk
CanPushAnyHere(g, line, col, vis) ==
    IF <<line, col>> \in vis THEN [ret |-> FALSE, vis |-> vis]
    ELSE [ret |-> \E k \in 1 .. Len(AllDirections) :
                     /\ ~CheckDirection(g, AllDirections[k], line, col, FALSE)
                     /\ CheckDirection(g, AllDirections[k], line, col, TRUE),
          vis |-> vis \cup {<<line, col>>}]

CanPushAny(g, line, col, vis) ==
    IF <<line, col>> \in vis THEN [ret |-> FALSE, vis |-> vis]
    ELSE CanPushAnyLoop(g, line, col, 1, [ret |-> FALSE, vis |-> vis \cup {<<line, col>>}])

\* the loop body of CheckFailed with a box stuck on one axis taken for frozen
BoxFailedEitherAxis(g, b) ==
    LET stuck_vertical == BoxStuck(g, b[1], b[2], FALSE, {}).ret
        stuck_horizontal == BoxStuck(g, b[1], b[2], TRUE, {}).ret
    IN IF g.Maze[b[1]][b[2]] # BitOr(BitOr(IsFloor, IsGoal), IsBox)
       THEN stuck_vertical \/ stuck_horizontal
       ELSE FALSE

\* the loop body of CheckFailed without the return for a box stuck on both axes
BoxFailedWallRunOnly(g, b) ==
    LET stuck_vertical == BoxStuck(g, b[1], b[2], FALSE, {}).ret
        stuck_horizontal == BoxStuck(g, b[1], b[2], TRUE, {}).ret
        wall_vertical ==
            (~CheckFloor(g, b[1] - 1, b[2]) /\ WallStuck(g, b[1], b[2], Down))
            \/ (~CheckFloor(g, b[1] + 1, b[2]) /\ WallStuck(g, b[1], b[2], Up))
        wall_horizontal ==
            (~CheckFloor(g, b[1], b[2] - 1) /\ WallStuck(g, b[1], b[2], Right))
            \/ (~CheckFloor(g, b[1], b[2] + 1) /\ WallStuck(g, b[1], b[2], Left))
    IN IF g.Maze[b[1]][b[2]] # BitOr(BitOr(IsFloor, IsGoal), IsBox)
       THEN IF stuck_vertical /\ wall_vertical THEN TRUE
            ELSE IF stuck_horizontal /\ wall_horizontal THEN TRUE
            ELSE FALSE
       ELSE FALSE

\* the body of the loop of CheckFailed for the box b
BoxFailed(g, b) ==
    LET stuck_vertical == BoxStuck(g, b[1], b[2], FALSE, {}).ret
        stuck_horizontal == BoxStuck(g, b[1], b[2], TRUE, {}).ret
        wall_vertical ==
            (~CheckFloor(g, b[1] - 1, b[2]) /\ WallStuck(g, b[1], b[2], Down))
            \/ (~CheckFloor(g, b[1] + 1, b[2]) /\ WallStuck(g, b[1], b[2], Up))
        wall_horizontal ==
            (~CheckFloor(g, b[1], b[2] - 1) /\ WallStuck(g, b[1], b[2], Right))
            \/ (~CheckFloor(g, b[1], b[2] + 1) /\ WallStuck(g, b[1], b[2], Left))
    IN IF g.Maze[b[1]][b[2]] # BitOr(BitOr(IsFloor, IsGoal), IsBox)
       THEN IF stuck_vertical /\ stuck_horizontal THEN TRUE
            ELSE IF stuck_vertical /\ wall_vertical THEN TRUE
            ELSE IF stuck_horizontal /\ wall_horizontal THEN TRUE
            ELSE FALSE
       ELSE FALSE

RECURSIVE AnyBoxFailed(_, _, _)
AnyBoxFailed(g, boxes, k) ==
    IF k > Len(boxes) THEN FALSE
    ELSE IF BoxFailed(g, boxes[k]) THEN TRUE
    ELSE AnyBoxFailed(g, boxes, k + 1)

\* CheckFailed without the walk of CanPushAny
CheckFailedNoReach(g) ==
    IF g.Finished = Cardinality(g.BoxPos0) THEN FALSE
    ELSE IF g.Directions = NoDirection THEN TRUE
    ELSE IF AnyBoxFailed(g, SetOrder(g.BoxPos), 1) THEN TRUE
    ELSE FALSE

\* CheckFailed that only looks at the boxes
CheckFailedBoxesOnly(g) ==
    IF g.Finished = Cardinality(g.BoxPos0) THEN FALSE
    ELSE IF AnyBoxFailed(g, SetOrder(g.BoxPos), 1) THEN TRUE
    ELSE FALSE

\* CheckFailed without the return for a finished game
CheckFailedUnguarded(g) ==
    IF g.Directions = NoDirection THEN TRUE
    ELSE IF AnyBoxFailed(g, SetOrder(g.BoxPos), 1) THEN TRUE
    ELSE IF ~CanPushAny(g, g.PlayerPos[1], g.PlayerPos[2], {}).ret THEN TRUE
    ELSE FALSE

CheckFailed(g) ==
    IF g.Finished = Cardinality(g.BoxPos0) THEN FALSE
    ELSE IF g.Directions = NoDirection THEN TRUE
    ELSE IF AnyBoxFailed(g, SetOrder(g.BoxPos), 1) THEN TRUE
    ELSE IF ~CanPushAny(g, g.PlayerPos[1], g.PlayerPos[2], {}).ret THEN TRUE
    ELSE FALSE

(***************************************************************************)
(* Game::UpdateData                                                        *)
(***************************************************************************)
SetFlag(maze, p, flag) == [maze EXCEPT ![p[1]][p[2]] = BitOr(@, flag)]

RECURSIVE MarkGoals(_, _, _)
MarkGoals(maze, goals, k) ==
    IF k > Len(goals) THEN maze ELSE MarkGoals(SetFlag(maze, goals[k], IsGoal), goals, k + 1)

\* the shift by FloorBits * offset++
StateFieldPostIncrement(g, b, offset) ==
    ShiftLeft(ToBits(g.FloorIndex[b[1]][b[2]]), g.FloorBits * offset)

\* State |= StateType(FloorIndex[i]) << FloorBits * ++offset
StateField(g, b, offset) ==
    ShiftLeft(ToBits(g.FloorIndex[b[1]][b[2]]), g.FloorBits * (offset + 1))

\* the loop over BoxPos that compares the cell before it sets IsBox
RECURSIVE MarkBoxesCountBeforeMark(_, _, _, _)
MarkBoxesCountBeforeMark(g, boxes, k, acc) ==
    IF k > Len(boxes) THEN acc
    ELSE LET b == boxes[k]
             maze == SetFlag(acc.Maze, b, IsBox)
         IN MarkBoxesCountBeforeMark(g, boxes, k + 1,
                [Maze |-> maze,
                 Finished |-> IF acc.Maze[b[1]][b[2]] = BitOr(BitOr(IsFloor, IsGoal), IsBox)
                              THEN acc.Finished + 1 ELSE acc.Finished,
                 State |-> acc.State \cup StateField(g, b, acc.offset),
                 offset |-> acc.offset + 1])

\* the loop over BoxPos; acc holds Maze, Finished, State and offset
RECURSIVE MarkBoxes(_, _, _, _)
MarkBoxes(g, boxes, k, acc) ==
    IF k > Len(boxes) THEN acc
    ELSE LET b == boxes[k]
             maze == SetFlag(acc.Maze, b, IsBox)
         IN MarkBoxes(g, boxes, k + 1,
                [Maze |-> maze,
                 Finished |-> IF maze[b[1]][b[2]] = BitOr(BitOr(IsFloor, IsGoal), IsBox)
                              THEN acc.Finished + 1 ELSE acc.Finished,
                 State |-> acc.State \cup StateField(g, b, acc.offset),
                 offset |-> acc.offset + 1])

\* the loop over the directions that asks CheckDirection without can_push_box
RECURSIVE LegalDirectionsNoPush(_, _, _)
LegalDirectionsNoPush(g, k, acc) ==
    IF k > Len(AllDirections) THEN acc
    ELSE LegalDirectionsNoPush(g, k + 1,
            IF CheckDirection(g, AllDirections[k], g.PlayerPos[1], g.PlayerPos[2], FALSE)
            THEN BitOr(acc, AllDirections[k]) ELSE acc)

RECURSIVE LegalDirections(_, _, _)
LegalDirections(g, k, acc) ==
    IF k > Len(AllDirections) THEN acc
    ELSE LegalDirections(g, k + 1,
            IF CheckDirection(g, AllDirections[k], g.PlayerPos[1], g.PlayerPos[2], TRUE)
            THEN BitOr(acc, AllDirections[k]) ELSE acc)

UpdateData(g) ==
    LET floors == [i \in 0 .. g.Height - 1 |-> [j \in 0 .. g.Width - 1 |->
                      IF g.FloorIndex[i][j] >= 0 THEN IsFloor ELSE IsWall]]
        goals == MarkGoals(floors, SetOrder(g.GoalPos), 1)
        boxes == MarkBoxes(g, SetOrder(g.BoxPos), 1,
                    [Maze |-> goals, Finished |-> 0,
                     State |-> ToBits(g.FloorIndex[g.PlayerPos[1]][g.PlayerPos[2]]),
                     offset |-> 0])
        g1 == [g EXCEPT !.Maze = SetFlag(boxes.Maze, g.PlayerPos, IsPlayer),
                        !.Finished = boxes.Finished,
                        !.State = boxes.State]
        g2 == [g1 EXCEPT !.Directions = LegalDirections(g1, 1, NoDirection)]
        g3 == [g2 EXCEPT !.Succeeded = (g2.Finished = Cardinality(g2.BoxPos0))]
    IN [g3 EXCEPT !.Failed = CheckFailed(g3)]

(***************************************************************************)
(* Game::DoRestart, Game::DoMove; the result of DoMove carries the object  *)
(* and the returned value                                                  *)
(***************************************************************************)
\* DoRestart that leaves StateHistory as it is
DoRestartKeepsHistory(g) ==
    UpdateData([g EXCEPT !.TimeElapsed = 0,
                         !.PlayerPos = g.PlayerPos0,
                         !.BoxPos = g.BoxPos0])

DoRestart(g) ==
    UpdateData([g EXCEPT !.TimeElapsed = 0,
                         !.StateHistory = {},
                         !.PlayerPos = g.PlayerPos0,
                         !.BoxPos = g.BoxPos0])

\* DoMove without the return for a direction whose Movement is {0, 0}
DoMoveNoSentinel(g, direction) ==
    LET movement == Movement(direction)
        pos == <<g.PlayerPos[1] + movement[1], g.PlayerPos[2] + movement[2]>>
        pushed == pos \in g.BoxPos
        p == <<pos[1] + movement[1], pos[2] + movement[2]>>
    IN IF BitAnd(g.Directions, direction) = 0 THEN [game |-> g, ret |-> FALSE]
       ELSE [game |-> UpdateData([g EXCEPT
                        !.TimeElapsed = @ + 1,
                        !.StateHistory = @ \cup {g.State},
                        !.PlayerPos = pos,
                        !.BoxPos = IF pushed THEN (@ \ {pos}) \cup {p} ELSE @]),
             ret |-> pushed]

\* DoMove that inserts the pushed box without erasing it from its old cell
DoMoveKeepsBox(g, direction) ==
    LET movement == Movement(direction)
        pos == <<g.PlayerPos[1] + movement[1], g.PlayerPos[2] + movement[2]>>
        pushed == pos \in g.BoxPos
        p == <<pos[1] + movement[1], pos[2] + movement[2]>>
    IN IF BitAnd(g.Directions, direction) = 0 THEN [game |-> g, ret |-> FALSE]
       ELSE IF movement[1] = movement[2] THEN [game |-> g, ret |-> FALSE]
       ELSE [game |-> UpdateData([g EXCEPT
                        !.TimeElapsed = @ + 1,
                        !.StateHistory = @ \cup {g.State},
                        !.PlayerPos = pos,
                        !.BoxPos = IF pushed THEN @ \cup {p} ELSE @]),
             ret |-> pushed]

\* DoMove that steps onto the box and leaves it where it is
DoMoveLeavesBox(g, direction) ==
    LET movement == Movement(direction)
        pos == <<g.PlayerPos[1] + movement[1], g.PlayerPos[2] + movement[2]>>
        pushed == pos \in g.BoxPos
    IN IF BitAnd(g.Directions, direction) = 0 THEN [game |-> g, ret |-> FALSE]
       ELSE IF movement[1] = movement[2] THEN [game |-> g, ret |-> FALSE]
       ELSE [game |-> UpdateData([g EXCEPT
                        !.TimeElapsed = @ + 1,
                        !.StateHistory = @ \cup {g.State},
                        !.PlayerPos = pos]),
             ret |-> pushed]

\* DoMove that reports every accepted step as a push
DoMoveReportsStep(g, direction) ==
    LET movement == Movement(direction)
        pos == <<g.PlayerPos[1] + movement[1], g.PlayerPos[2] + movement[2]>>
        pushed == pos \in g.BoxPos
        p == <<pos[1] + movement[1], pos[2] + movement[2]>>
    IN IF BitAnd(g.Directions, direction) = 0 THEN [game |-> g, ret |-> FALSE]
       ELSE IF movement[1] = movement[2] THEN [game |-> g, ret |-> FALSE]
       ELSE [game |-> UpdateData([g EXCEPT
                        !.TimeElapsed = @ + 1,
                        !.StateHistory = @ \cup {g.State},
                        !.PlayerPos = pos,
                        !.BoxPos = IF pushed THEN (@ \ {pos}) \cup {p} ELSE @]),
             ret |-> TRUE]

\* DoMove that increments TimeElapsed before it looks at the direction
DoMoveCountsCalls(g, direction) ==
    LET movement == Movement(direction)
        pos == <<g.PlayerPos[1] + movement[1], g.PlayerPos[2] + movement[2]>>
        pushed == pos \in g.BoxPos
        p == <<pos[1] + movement[1], pos[2] + movement[2]>>
        counted == [g EXCEPT !.TimeElapsed = @ + 1]
    IN IF BitAnd(g.Directions, direction) = 0 THEN [game |-> counted, ret |-> FALSE]
       ELSE IF movement[1] = movement[2] THEN [game |-> counted, ret |-> FALSE]
       ELSE [game |-> UpdateData([counted EXCEPT
                        !.StateHistory = @ \cup {g.State},
                        !.PlayerPos = pos,
                        !.BoxPos = IF pushed THEN (@ \ {pos}) \cup {p} ELSE @]),
             ret |-> pushed]

\* DoMove that inserts the state into StateHistory after UpdateData
DoMoveLogsAfter(g, direction) ==
    LET movement == Movement(direction)
        pos == <<g.PlayerPos[1] + movement[1], g.PlayerPos[2] + movement[2]>>
        pushed == pos \in g.BoxPos
        p == <<pos[1] + movement[1], pos[2] + movement[2]>>
        moved == UpdateData([g EXCEPT
                        !.TimeElapsed = @ + 1,
                        !.PlayerPos = pos,
                        !.BoxPos = IF pushed THEN (@ \ {pos}) \cup {p} ELSE @])
    IN IF BitAnd(g.Directions, direction) = 0 THEN [game |-> g, ret |-> FALSE]
       ELSE IF movement[1] = movement[2] THEN [game |-> g, ret |-> FALSE]
       ELSE [game |-> [moved EXCEPT !.StateHistory = @ \cup {moved.State}],
             ret |-> pushed]

DoMove(g, direction) ==
    LET movement == Movement(direction)
        pos == <<g.PlayerPos[1] + movement[1], g.PlayerPos[2] + movement[2]>>
        pushed == pos \in g.BoxPos
        p == <<pos[1] + movement[1], pos[2] + movement[2]>>
    IN IF BitAnd(g.Directions, direction) = 0 THEN [game |-> g, ret |-> FALSE]
       ELSE IF movement[1] = movement[2] THEN [game |-> g, ret |-> FALSE]
       ELSE [game |-> UpdateData([g EXCEPT
                        !.TimeElapsed = @ + 1,
                        !.StateHistory = @ \cup {g.State},
                        !.PlayerPos = pos,
                        !.BoxPos = IF pushed THEN (@ \ {pos}) \cup {p} ELSE @]),
             ret |-> pushed]

\* the constructor: parse, checks, then DoRestart on the fields it has set
Game(maze) ==
    LET m == ParseMaze(maze)
    IN IF m.error # NoError THEN [error |-> m.error]
       ELSE [error |-> NoError,
             game |-> DoRestart(
                [Succeeded |-> FALSE, Failed |-> FALSE, Directions |-> NoDirection,
                 Height |-> m.Height, Width |-> m.Width, FloorBits |-> m.FloorBits,
                 Finished |-> 0, State |-> {}, TimeElapsed |-> 0,
                 PlayerPos0 |-> m.PlayerPos0, PlayerPos |-> m.PlayerPos0,
                 BoxPos0 |-> m.BoxPos0, BoxPos |-> m.BoxPos0, GoalPos |-> m.GoalPos,
                 Maze |-> <<>>, FloorIndex |-> m.FloorIndex, StateHistory |-> {}])]

(***************************************************************************)
(* QTable (include/SokobanQLearning.hpp).  map is the content of _map: a   *)
(* function from the states that have an entry to rows <<Up, Left, Right,  *)
(* Down>>.  A real value v is held as the integer v * Unit.                *)
(***************************************************************************)
\* Train calls of one run of the learner
MaxTrain == 4

\* Train calls of one run of the learner that never explores
MaxLive == 16

\* the integer that stands for 1.0: with alpha = 1/2 every Train call halves
\* the grain of the values of the table, which starts at 1/2
Unit == Pow2((IF MaxLive > MaxTrain THEN MaxLive ELSE MaxTrain) + 1)

\* std::array<RealType, 4> value-initialized by _map[state]
ZeroRow == <<0, 0, 0, 0>>

\* the index of the switch over action; 0 stands for the default label
Slot(action) ==
    IF action = Up THEN 1
    ELSE IF action = Left THEN 2
    ELSE IF action = Right THEN 3
    ELSE IF action = Down THEN 4
    ELSE 0

\* Get(state, action) that reads the row without its guard on the action
GetAnySlot(map, state, action) ==
    IF state \notin DOMAIN map THEN 0
    ELSE map[state][IF Slot(action) = 0 THEN 1 ELSE Slot(action)]

\* RealType Get(state, action)
Get(map, state, action) ==
    IF state \notin DOMAIN map THEN 0
    ELSE IF Slot(action) = 0 THEN 0
    ELSE map[state][Slot(action)]

\* RowType Get(state)
GetRow(map, state) ==
    IF state \in DOMAIN map THEN map[state] ELSE ZeroRow

\* _map[state] = row
SetRow(map, state, row) ==
    [s \in DOMAIN map \cup {state} |-> IF s = state THEN row ELSE map[s]]

\* Set(state, action, value) that writes a fresh row with the value in it
SetFreshRow(map, state, action, value) ==
    IF Slot(action) = 0 THEN map
    ELSE SetRow(map, state, [ZeroRow EXCEPT ![Slot(action)] = value])

\* void Set(state, action, value): no label of the switch matches an action
\* that is no direction, and _map is not touched then
Set(map, state, action, value) ==
    IF Slot(action) = 0 THEN map
    ELSE SetRow(map, state, [GetRow(map, state) EXCEPT ![Slot(action)] = value])

\* bool Check(state)
Check(map, state) == state \in DOMAIN map

(***************************************************************************)
(* FindAction and Train (include/SokobanQLearning.hpp)                     *)
(***************************************************************************)
\* the arguments main binds to Train; alpha and gamma are fractions, the
\* rewards are held like the values of the table
alpha == [num |-> 1, den |-> 2]
gamma == [num |-> 1, den |-> 1]
retrace_penalty == Unit
push_reward == Unit \div 2
goal_reward == 50 * Unit
failure_penalty == 1000 * Unit
success_reward == 1000 * Unit

\* x & -x and x & (x - 1) on a DirectionInt
LowBit(x) == x - BitAnd(x, x - 1)
ClearLow(x) == BitAnd(x, x - 1)

\* what the two distributions draw from the generator: real is the value of
\* uniform_real_distribution<double>(0.0, 1.0) in hundredths, and
\* uniform_int_distribution<int>(0, n - 1) yields int reduced to 0 .. n - 1
IntDraw(random_generator, n) == random_generator.int % n

\* the loop of FindAction with current_Q >= max_Q for current_Q > max_Q
RECURSIVE FindActionLoopLastMax(_, _, _)
FindActionLoopLastMax(map, state, st) ==
    IF st.actions_remain = 0 THEN st
    ELSE LET remain == ClearLow(st.actions_remain)
             larger == st.current_Q >= st.max_Q
         IN FindActionLoopLastMax(map, state,
                [action_count |-> st.action_count + 1,
                 all_same |-> st.all_same /\ st.last_Q = st.current_Q,
                 max_Q |-> IF larger THEN st.current_Q ELSE st.max_Q,
                 choice |-> IF larger THEN st.current_action ELSE st.choice,
                 actions_remain |-> remain,
                 last_action |-> st.current_action,
                 last_Q |-> st.current_Q,
                 current_action |-> LowBit(remain),
                 current_Q |-> Get(map, state, LowBit(remain))])

\* the loop while (actions_remain) of FindAction; st holds its locals
RECURSIVE FindActionLoop(_, _, _)
FindActionLoop(map, state, st) ==
    IF st.actions_remain = 0 THEN st
    ELSE LET remain == ClearLow(st.actions_remain)
             larger == st.current_Q > st.max_Q
         IN FindActionLoop(map, state,
                [action_count |-> st.action_count + 1,
                 all_same |-> st.all_same /\ st.last_Q = st.current_Q,
                 max_Q |-> IF larger THEN st.current_Q ELSE st.max_Q,
                 choice |-> IF larger THEN st.current_action ELSE st.choice,
                 actions_remain |-> remain,
                 last_action |-> st.current_action,
                 last_Q |-> st.current_Q,
                 current_action |-> LowBit(remain),
                 current_Q |-> Get(map, state, LowBit(remain))])

\* while (random_choice--) actions_remain &= actions_remain - 1
RECURSIVE SkipActions(_, _)
SkipActions(actions_remain, random_choice) ==
    IF random_choice = 0 THEN actions_remain
    ELSE SkipActions(ClearLow(actions_remain), random_choice - 1)

\* FindAction that takes the first legal direction where the original takes
\* the greedy choice
FindActionFirstLegal(random_generator, eps, g, map) ==
    LET actions == g.Directions
        state == g.State
        actions_remain == ClearLow(actions)
        st == FindActionLoop(map, state,
                [action_count |-> 1, all_same |-> TRUE,
                 max_Q |-> Get(map, state, LowBit(actions)),
                 choice |-> LowBit(actions),
                 actions_remain |-> actions_remain,
                 last_action |-> LowBit(actions),
                 last_Q |-> Get(map, state, LowBit(actions)),
                 current_action |-> LowBit(actions_remain),
                 current_Q |-> Get(map, state, LowBit(actions_remain))])
    IN IF actions = NoDirection THEN [ret |-> NoDirection, draws |-> 0]
       ELSE IF st.action_count = 1 THEN [ret |-> actions, draws |-> 0]
       ELSE IF st.all_same \/ random_generator.real < eps
            THEN [ret |-> LowBit(SkipActions(actions, IntDraw(random_generator, st.action_count))),
                  draws |-> 2]
            ELSE [ret |-> LowBit(actions), draws |-> 1]

\* FindAction that takes the random index only for a draw below epsilon
FindActionGreedyOnTie(random_generator, eps, g, map) ==
    LET actions == g.Directions
        state == g.State
        actions_remain == ClearLow(actions)
        st == FindActionLoop(map, state,
                [action_count |-> 1, all_same |-> TRUE,
                 max_Q |-> Get(map, state, LowBit(actions)),
                 choice |-> LowBit(actions),
                 actions_remain |-> actions_remain,
                 last_action |-> LowBit(actions),
                 last_Q |-> Get(map, state, LowBit(actions)),
                 current_action |-> LowBit(actions_remain),
                 current_Q |-> Get(map, state, LowBit(actions_remain))])
    IN IF actions = NoDirection THEN [ret |-> NoDirection, draws |-> 0]
       ELSE IF st.action_count = 1 THEN [ret |-> actions, draws |-> 0]
       ELSE IF random_generator.real < eps
            THEN [ret |-> LowBit(SkipActions(actions, IntDraw(random_generator, st.action_count))),
                  draws |-> 2]
            ELSE [ret |-> st.choice, draws |-> 1]

\* FindAction that draws the real value before it looks at action_count
FindActionAlwaysDraws(random_generator, eps, g, map) ==
    LET actions == g.Directions
        state == g.State
        actions_remain == ClearLow(actions)
        st == FindActionLoop(map, state,
                [action_count |-> 1, all_same |-> TRUE,
                 max_Q |-> Get(map, state, LowBit(actions)),
                 choice |-> LowBit(actions),
                 actions_remain |-> actions_remain,
                 last_action |-> LowBit(actions),
                 last_Q |-> Get(map, state, LowBit(actions)),
                 current_action |-> LowBit(actions_remain),
                 current_Q |-> Get(map, state, LowBit(actions_remain))])
    IN IF actions = NoDirection THEN [ret |-> NoDirection, draws |-> 0]
       ELSE IF st.action_count = 1 THEN [ret |-> actions, draws |-> 1]
       ELSE IF st.all_same \/ random_generator.real < eps
            THEN [ret |-> LowBit(SkipActions(actions, IntDraw(random_generator, st.action_count))),
                  draws |-> 2]
            ELSE [ret |-> st.choice, draws |-> 1]

\* FindAction that takes the random index over all four directions
FindActionAnyDirection(random_generator, eps, g, map) ==
    LET actions == g.Directions
        state == g.State
        actions_remain == ClearLow(actions)
        st == FindActionLoop(map, state,
                [action_count |-> 1, all_same |-> TRUE,
                 max_Q |-> Get(map, state, LowBit(actions)),
                 choice |-> LowBit(actions),
                 actions_remain |-> actions_remain,
                 last_action |-> LowBit(actions),
                 last_Q |-> Get(map, state, LowBit(actions)),
                 current_action |-> LowBit(actions_remain),
                 current_Q |-> Get(map, state, LowBit(actions_remain))])
    IN IF actions = NoDirection THEN [ret |-> NoDirection, draws |-> 0]
       ELSE IF st.action_count = 1 THEN [ret |-> actions, draws |-> 0]
       ELSE IF st.all_same \/ random_generator.real < eps
            THEN [ret |-> AllDirections[IntDraw(random_generator, 4) + 1], draws |-> 2]
            ELSE [ret |-> st.choice, draws |-> 1]

\* the result carries the returned direction and the number of values drawn
\* from the generator
FindAction(random_generator, eps, g, map) ==
    LET actions == g.Directions
        state == g.State
        actions_remain == ClearLow(actions)
        st == FindActionLoop(map, state,
                [action_count |-> 1, all_same |-> TRUE,
                 max_Q |-> Get(map, state, LowBit(actions)),
                 choice |-> LowBit(actions),
                 actions_remain |-> actions_remain,
                 last_action |-> LowBit(actions),
                 last_Q |-> Get(map, state, LowBit(actions)),
                 current_action |-> LowBit(actions_remain),
                 current_Q |-> Get(map, state, LowBit(actions_remain))])
    IN IF actions = NoDirection THEN [ret |-> NoDirection, draws |-> 0]
       ELSE IF st.action_count = 1 THEN [ret |-> actions, draws |-> 0]
       ELSE IF st.all_same \/ random_generator.real < eps
            THEN [ret |-> LowBit(SkipActions(actions, IntDraw(random_generator, st.action_count))),
                  draws |-> 2]
            ELSE [ret |-> st.choice, draws |-> 1]

\* the two constructors of TrainResult
TrainResult(last_state, old_row, action, new_row) ==
    [Action |-> action, LastState |-> last_state, OldRow |-> old_row, NewRow |-> new_row]

TrainResultNoAction(last_state, old_row) ==
    TrainResult(last_state, old_row, NoDirection, old_row)

\* the loop over AllDirections that raises max_Q to the values of the
\* directions in actions
RECURSIVE MaxOverActions(_, _, _, _, _)
MaxOverActions(map, state, actions, k, max_Q) ==
    IF k > Len(AllDirections) THEN max_Q
    ELSE MaxOverActions(map, state, actions, k + 1,
            IF BitAnd(actions, AllDirections[k]) # 0 /\ Get(map, state, AllDirections[k]) > max_Q
            THEN Get(map, state, AllDirections[k])
            ELSE max_Q)

\* (1 - alpha) * old + alpha * (reward + gamma * max_Q)
Updated(old, reward, max_Q) ==
    ((alpha.den - alpha.num) * old) \div alpha.den
    + (alpha.num * (reward + (gamma.num * max_Q) \div gamma.den)) \div alpha.den

\* the part of Train after the test for a terminal state, without the
\* penalty for a state of StateHistory
TrainMoveNoRetrace(random_generator, g, map, eps) ==
    LET last_state == g.State
        old_row == GetRow(map, last_state)
        last_finished == g.Finished
        found == FindAction(random_generator, eps, g, map)
        last_action == found.ret
        moved == DoMove(g, last_action)
        game == moved.game
        pushed == moved.ret
        state == game.State
        reward == goal_reward * (game.Finished - last_finished)
                  + (IF pushed THEN push_reward ELSE 0)
                  + (IF game.Succeeded THEN success_reward ELSE 0)
                  - (IF game.Failed THEN failure_penalty ELSE 0)
        max_Q == MaxOverActions(map, state, game.Directions, 1,
                    -(retrace_penalty + failure_penalty
                      + goal_reward * Cardinality(game.BoxPos0)))
        table == Set(map, last_state, last_action,
                     Updated(Get(map, last_state, last_action), reward, max_Q))
    IN [game |-> game, map |-> table,
        result |-> TrainResult(last_state, old_row, last_action, GetRow(table, last_state)),
        pushed |-> pushed, draws |-> found.draws]

\* the part of Train after the test for a terminal state, with max_Q taken
\* over the legal directions alone
TrainMoveLegalMax(random_generator, g, map, eps) ==
    LET last_state == g.State
        old_row == GetRow(map, last_state)
        last_finished == g.Finished
        found == FindAction(random_generator, eps, g, map)
        last_action == found.ret
        moved == DoMove(g, last_action)
        game == moved.game
        pushed == moved.ret
        state == game.State
        reward == goal_reward * (game.Finished - last_finished)
                  - (IF state \in game.StateHistory THEN retrace_penalty ELSE 0)
                  + (IF pushed THEN push_reward ELSE 0)
                  + (IF game.Succeeded THEN success_reward ELSE 0)
                  - (IF game.Failed THEN failure_penalty ELSE 0)
        max_Q == MaxOverActions(map, state, game.Directions, 1,
                    -Pow2(30))
        table == Set(map, last_state, last_action,
                     Updated(Get(map, last_state, last_action), reward, max_Q))
    IN [game |-> game, map |-> table,
        result |-> TrainResult(last_state, old_row, last_action, GetRow(table, last_state)),
        pushed |-> pushed, draws |-> found.draws]

\* the part of Train after the test for a terminal state; the results carry
\* the game, the table, the returned TrainResult, the value Move returned
\* and the number of values drawn from the generator
TrainMove(random_generator, g, map, eps) ==
    LET last_state == g.State
        old_row == GetRow(map, last_state)
        last_finished == g.Finished
        found == FindAction(random_generator, eps, g, map)
        last_action == found.ret
        moved == DoMove(g, last_action)
        game == moved.game
        pushed == moved.ret
        state == game.State
        reward == goal_reward * (game.Finished - last_finished)
                  - (IF state \in game.StateHistory THEN retrace_penalty ELSE 0)
                  + (IF pushed THEN push_reward ELSE 0)
                  + (IF game.Succeeded THEN success_reward ELSE 0)
                  - (IF game.Failed THEN failure_penalty ELSE 0)
        max_Q == MaxOverActions(map, state, game.Directions, 1,
                    -(retrace_penalty + failure_penalty
                      + goal_reward * Cardinality(game.BoxPos0)))
        table == Set(map, last_state, last_action,
                     Updated(Get(map, last_state, last_action), reward, max_Q))
    IN [game |-> game, map |-> table,
        result |-> TrainResult(last_state, old_row, last_action, GetRow(table, last_state)),
        pushed |-> pushed, draws |-> found.draws]

\* Train that reads the state and its row after the Restart
TrainReadsAfterRestart(random_generator, g, map, eps) ==
    IF g.Succeeded \/ g.Failed
    THEN [game |-> DoRestart(g), map |-> map,
          result |-> TrainResultNoAction(DoRestart(g).State, GetRow(map, DoRestart(g).State)),
          pushed |-> FALSE, draws |-> 0]
    ELSE TrainMove(random_generator, g, map, eps)

\* Train that stores alpha * (reward + gamma * max_Q) without the share of
\* the old value
TrainForgetsOld(random_generator, g, map, eps) ==
    IF g.Succeeded \/ g.Failed
    THEN [game |-> DoRestart(g), map |-> map,
          result |-> TrainResultNoAction(g.State, GetRow(map, g.State)),
          pushed |-> FALSE, draws |-> 0]
    ELSE LET r == TrainMove(random_generator, g, map, eps)
             table == Set(map, g.State, r.result.Action,
                          r.map[g.State][Slot(r.result.Action)]
                          - ((alpha.den - alpha.num) * Get(map, g.State, r.result.Action))
                                \div alpha.den)
         IN [r EXCEPT !.map = table,
                      !.result = TrainResult(g.State, r.result.OldRow, r.result.Action,
                                             GetRow(table, g.State))]

Train(random_generator, g, map, eps) ==
    IF g.Succeeded \/ g.Failed
    THEN [game |-> DoRestart(g), map |-> map,
          result |-> TrainResultNoAction(g.State, GetRow(map, g.State)),
          pushed |-> FALSE, draws |-> 0]
    ELSE TrainMove(random_generator, g, map, eps)

(***************************************************************************)
(* Mazes given to the constructor                                          *)
(***************************************************************************)
\* the walled 2x3 room of the scenario maze
RoomLayout ==
    << <<"#", "#", "#", "#", "#">>,
       <<"#", ".", ".", ".", "#">>,
       <<"#", ".", ".", ".", "#">>,
       <<"#", "#", "#", "#", "#">> >>

\* no surrounding wall, rows of different lengths
OpenLayout ==
    << <<".", ".">>,
       <<".", ".", ".">> >>

Layouts == {RoomLayout, OpenLayout}

FloorCells(layout) ==
    {p \in (0 .. Len(layout) - 1) \X (0 .. MaxAxis) :
        p[2] < Len(layout[p[1] + 1]) /\ layout[p[1] + 1][p[2] + 1] = "."}

Symbol(is_player, is_box, is_goal) ==
    IF is_box THEN (IF is_goal THEN "@" ELSE "&")
    ELSE IF is_player THEN (IF is_goal THEN "+" ELSE "*")
    ELSE IF is_goal THEN "$" ELSE "."

RECURSIVE JoinRows(_, _)
JoinRows(rows, k) ==
    IF k > Len(rows) THEN <<>> ELSE rows[k] \o <<"\n">> \o JoinRows(rows, k + 1)

\* the text of the maze with the player, boxes and goals placed on floor cells
RenderInput(layout, player, boxes, goals) ==
    JoinRows([i \in 1 .. Len(layout) |-> [j \in 1 .. Len(layout[i]) |->
                 IF layout[i][j] = "."
                 THEN Symbol(<<i - 1, j - 1>> = player, <<i - 1, j - 1>> \in boxes,
                             <<i - 1, j - 1>> \in goals)
                 ELSE layout[i][j]]], 1)

ValidMazes ==
    UNION {
        {RenderInput(layout, player, boxes, goals) :
            <<player, boxes, goals>> \in
                {t \in FloorCells(layout) \X (SUBSET FloorCells(layout)) \X (SUBSET FloorCells(layout)) :
                    /\ t[1] \notin t[2]
                    /\ Cardinality(t[2]) \in 1 .. MaxBoxes
                    /\ Cardinality(t[3]) >= Cardinality(t[2])
                    /\ Cardinality(t[3]) <= Cardinality(t[2]) + MaxExtraGoals}}
        : layout \in Layouts}

\* mazes the constructor refuses
BadMazes ==
    { <<".", "&", "$">>,
      <<"*", ".", "$">>,
      <<"*", "&", "+", "$">>,
      <<"*", "&", "&", "$">> }

\* the maze of the scenario: one box at (1,2), the goal at (2,2), the player at (2,3)
ScenarioMaze ==
    <<"#", "#", "#", "#", "#", "\n",
      "#", ".", "&", ".", "#", "\n",
      "#", ".", "$", "*", "#", "\n",
      "#", "#", "#", "#", "#">>

Repeat(c, n) == [i \in 1 .. n |-> c]

\* one row of n columns: player, box, goal, then wall
WideMaze(n) == <<"*", "&", "$">> \o Repeat("#", n - 3)

\* n rows: player, box, goal in the first, a wall cell in each of the others
TallMaze(n) == <<"*", "&", "$">> \o [i \in 1 .. 2 * (n - 1) |-> IF i % 2 = 1 THEN "\n" ELSE "#"]

\* one row of floor cells: the player, then boxes standing on goals, then floor
DenseMaze(cells, boxes) == <<"*">> \o Repeat("@", boxes) \o Repeat(".", cells - 1 - boxes)

\* mazes at the limits of the constructor, and one with CR LF line ends
LimitMazes ==
    { WideMaze(MaxAxis), WideMaze(MaxAxis + 1),
      TallMaze(MaxAxis), TallMaze(MaxAxis + 1),
      DenseMaze(16, 12), DenseMaze(17, 11), DenseMaze(17, 12),
      <<"\n", ".", "*", "\r", "\n", "$", "&", ".", "\r", "\n", ".", ".", "\r", "\n">> }

\* a player that can walk but is walled off from the box
ShutOutMaze == <<"*", ".", "#", ".", "&", ".", "$">>

\* a box along walls above and below, on a run with an opening on both sides
OpenRunMaze == <<"$", "#", "\n", "*", "&", ".", ".", "\n", ".", "#">>

Mazes == ValidMazes \cup BadMazes \cup {ScenarioMaze, ShutOutMaze, OpenRunMaze} \cup LimitMazes

\* mazes given to the learner: the scenario maze, which is Failed from the
\* start; a box that can be pushed onto the goal or into a corner; a
\* corridor with one legal direction and two pushes to the goal; a maze that
\* is solved from the start; a player shut in by walls; two boxes, one of
\* which can be pushed off its goal
TrapMaze == <<"*", "&", "$", "\n", ".", ".", ".">>
CorridorMaze == <<"*", "&", ".", "$">>
SolvedMaze == <<"*", "@">>
EnclosedMaze == <<"*", "#", ".", "&", ".", "$">>
TwoBoxMaze == <<"*", "@", ".", "$", ".", "&", ".", "$">>

\* three legal directions at the start
JunctionMaze == <<".", ".", ".", "\n", "*", "&", "$", "\n", ".", ".", ".">>

TrainMazes ==
    {ScenarioMaze, TrapMaze, CorridorMaze, SolvedMaze, EnclosedMaze, TwoBoxMaze, JunctionMaze}


(***************************************************************************)
(* State                                                                   *)
(***************************************************************************)
VARIABLES
    maze,           \* the text given to the constructor
    error,          \* what() of the Sokoban::Error thrown by it, or NoError
    Succeeded, Failed, Directions, Height, Width, FloorBits, Finished, State,
    TimeElapsed, PlayerPos0, PlayerPos, BoxPos0, BoxPos, GoalPos, Maze,
    FloorIndex, StateHistory,
    call,           \* the last public operation and the value it returned
    FailedAt,       \* history: TimeElapsed when Failed was first seen in this episode, or -1
    Q,              \* the content of the table of the learner
    epsilon,        \* the exploration rate given to Train, in hundredths
    train_result,   \* the TrainResult main holds
    trained,        \* history: the number of Train calls
    written,        \* history: the states given to a Set of the table
    interrupted,    \* the flag the SIGINT handler sets
    quiet,          \* the counter of the option --quiet
    pc,             \* the statement of RunAlgorithm that comes next
    pending,        \* the Train call under way: its results not yet in the table
    after           \* history: the Train calls begun with the flag set

fields == <<Succeeded, Failed, Directions, Height, Width, FloorBits, Finished, State,
            TimeElapsed, PlayerPos0, PlayerPos, BoxPos0, BoxPos, GoalPos, Maze,
            FloorIndex, StateHistory>>

\* RunAlgorithm's loop around train()
loop == <<interrupted, quiet, pc, pending, after>>

learner == <<Q, epsilon, train_result, trained, written, loop>>

vars == <<maze, error, fields, call, FailedAt, learner>>

\* the Game object as a record
Self ==
    [Succeeded |-> Succeeded, Failed |-> Failed, Directions |-> Directions,
     Height |-> Height, Width |-> Width, FloorBits |-> FloorBits,
     Finished |-> Finished, State |-> State, TimeElapsed |-> TimeElapsed,
     PlayerPos0 |-> PlayerPos0, PlayerPos |-> PlayerPos,
     BoxPos0 |-> BoxPos0, BoxPos |-> BoxPos, GoalPos |-> GoalPos,
     Maze |-> Maze, FloorIndex |-> FloorIndex, StateHistory |-> StateHistory]

\* no object: the constructor threw
NoGame ==
    [Succeeded |-> FALSE, Failed |-> FALSE, Directions |-> NoDirection,
     Height |-> 0, Width |-> 0, FloorBits |-> 0, Finished |-> 0, State |-> {},
     TimeElapsed |-> 0, PlayerPos0 |-> <<-1, -1>>, PlayerPos |-> <<-1, -1>>,
     BoxPos0 |-> {}, BoxPos |-> {}, GoalPos |-> {}, Maze |-> <<>>,
     FloorIndex |-> <<>>, StateHistory |-> {}]

\* the fields of a constructed object
Construct(g) ==
    /\ Succeeded = g.Succeeded
    /\ Failed = g.Failed
    /\ Directions = g.Directions
    /\ Height = g.Height
    /\ Width = g.Width
    /\ FloorBits = g.FloorBits
    /\ Finished = g.Finished
    /\ State = g.State
    /\ TimeElapsed = g.TimeElapsed
    /\ PlayerPos0 = g.PlayerPos0
    /\ PlayerPos = g.PlayerPos
    /\ BoxPos0 = g.BoxPos0
    /\ BoxPos = g.BoxPos
    /\ GoalPos = g.GoalPos
    /\ Maze = g.Maze
    /\ FloorIndex = g.FloorIndex
    /\ StateHistory = g.StateHistory

\* the fields after an operation that leaves the object as g
Store(g) ==
    /\ Succeeded' = g.Succeeded
    /\ Failed' = g.Failed
    /\ Directions' = g.Directions
    /\ Height' = g.Height
    /\ Width' = g.Width
    /\ FloorBits' = g.FloorBits
    /\ Finished' = g.Finished
    /\ State' = g.State
    /\ TimeElapsed' = g.TimeElapsed
    /\ PlayerPos0' = g.PlayerPos0
    /\ PlayerPos' = g.PlayerPos
    /\ BoxPos0' = g.BoxPos0
    /\ BoxPos' = g.BoxPos
    /\ GoalPos' = g.GoalPos
    /\ Maze' = g.Maze
    /\ FloorIndex' = g.FloorIndex
    /\ StateHistory' = g.StateHistory

\* arguments given to Move: the four directions, NoDirection, two directions
\* at once, a bit that is no direction
DirectionInputs == {NoDirection, Up, Left, Right, Down, 3, 16}

\* a table without entries
EmptyTable == [s \in {} |-> ZeroRow]

\* the exploration rate main binds to Train (0.05), in hundredths
DefaultEpsilon == 5

\* the learner of RunAlgorithm before the first Train call, with the table
\* holding map
Untrained(map, eps) ==
    /\ Q = map
    /\ epsilon = eps
    /\ train_result = TrainResultNoAction(State, GetRow(map, State))
    /\ trained = 0
    /\ written = DOMAIN map
    /\ interrupted = FALSE
    /\ quiet = 0
    /\ pc = "quiet"
    /\ pending = {}
    /\ after = 0

Init ==
    /\ maze \in Mazes
    /\ \E c \in {Game(maze)} :
          /\ error = c.error
          /\ \E g \in {IF c.error = NoError THEN c.game ELSE NoGame} :
                /\ Construct(g)
                /\ FailedAt = IF g.Failed THEN 0 ELSE -1
    /\ call = [op |-> "Game", ret |-> FALSE]
    /\ Untrained(EmptyTable, DefaultEpsilon)

Move(direction) ==
    /\ error = NoError
    /\ \E r \in {DoMove(Self, direction)} :
          /\ r.game.TimeElapsed <= MaxTime
          /\ Store(r.game)
          /\ call' = [op |-> "Move", ret |-> r.ret]
          /\ FailedAt' = IF FailedAt = -1 /\ r.game.Failed THEN r.game.TimeElapsed ELSE FailedAt
    /\ UNCHANGED <<maze, error, learner>>

Restart ==
    /\ error = NoError
    /\ \E g \in {DoRestart(Self)} :
          /\ Store(g)
          /\ FailedAt' = IF g.Failed THEN 0 ELSE -1
    /\ call' = [op |-> "Restart", ret |-> FALSE]
    /\ UNCHANGED <<maze, error, learner>>

Next ==
    \/ \E direction \in DirectionInputs : Move(direction)
    \/ Restart

Spec == Init /\ [][Next]_vars

(***************************************************************************)
(* The learner: the loop of RunAlgorithm calls train(), the Train function *)
(* bound to the game, the table and the generator                          *)
(***************************************************************************)
\* exploration rates: none, the one of main, and always
Epsilons == {0, DefaultEpsilon, 100}

\* values the generator yields to the two distributions
RandomGenerators == [real : {0, DefaultEpsilon, 99}, int : 0 .. 3]

\* tables filled by Set calls before the training: none, a row of distinct
\* values, a row of equal values, a row with two equal maxima, a row of
\* values below -(retrace_penalty + failure_penalty + goal_reward * boxes)
InitialTables(state) ==
    { EmptyTable,
      SetRow(EmptyTable, state, <<Unit, 2 * Unit, 3 * Unit, 4 * Unit>>),
      SetRow(EmptyTable, state, <<-2 * Unit, -2 * Unit, -2 * Unit, -2 * Unit>>),
      SetRow(EmptyTable, state, <<3 * Unit, 0, 3 * Unit, 0>>),
      SetRow(EmptyTable, state, <<-3000 * Unit, -3000 * Unit, -3000 * Unit, -3000 * Unit>>) }

TrainInit ==
    /\ maze \in TrainMazes
    /\ \E c \in {Game(maze)} :
          /\ error = c.error
          /\ Construct(c.game)
          /\ FailedAt = IF c.game.Failed THEN 0 ELSE -1
          /\ \E map \in InitialTables(c.game.State), eps \in Epsilons : Untrained(map, eps)
    /\ call = [op |-> "Game", ret |-> FALSE]

\* one call of train(): Train on the game, the table and the generator
TrainCall(random_generator) ==
    /\ error = NoError
    /\ \E r \in {Train(random_generator, Self, Q, epsilon)} :
          /\ Store(r.game)
          /\ Q' = r.map
          /\ train_result' = r.result
          /\ call' = [op |-> "Train", ret |-> r.pushed, draws |-> r.draws]
          /\ FailedAt' = IF r.game.TimeElapsed = 0 THEN (IF r.game.Failed THEN 0 ELSE -1)
                         ELSE IF FailedAt = -1 /\ r.game.Failed THEN r.game.TimeElapsed
                         ELSE FailedAt
          /\ written' = written \cup DOMAIN r.map
    /\ trained' = trained + 1
    /\ UNCHANGED <<maze, error, epsilon, loop>>

\* one call of train() in a run of at most MaxTrain calls
train(random_generator) ==
    /\ trained < MaxTrain
    /\ TrainCall(random_generator)

\* a call of FindAction on the game and the table as they are
Select(random_generator) ==
    /\ error = NoError
    /\ \E found \in {FindAction(random_generator, epsilon, Self, Q)} :
          call' = [op |-> "FindAction", ret |-> found.ret, draws |-> found.draws]
    /\ UNCHANGED <<maze, error, fields, FailedAt, learner>>

TrainNext ==
    \E random_generator \in RandomGenerators :
        \/ train(random_generator)
        \/ Select(random_generator)

TrainSpec == TrainInit /\ [][TrainNext]_vars

(***************************************************************************)
(* The learner that never explores: the loop while (!interrupted)          *)
(* train_result = train() of RunAlgorithm with epsilon 0 on an empty       *)
(* table.  The loop calls train() again and again, which is the weak       *)
(* fairness of the call.  A call is possible whenever trained is below     *)
(* MaxLive, and it is the only step that changes trained, so the fairness  *)
(* is stated on the counted call.                                          *)
(***************************************************************************)
\* a maze where the player can walk round to push the box into a dead end
DeadEndMaze == <<"#", ".", "#", "\n", "*", "&", "$", "\n", ".", ".", "#">>

\* mazes with one box that pushes can bring to the goal
LiveMazes ==
    { CorridorMaze, DeadEndMaze,
      <<".", "*", "&", "$">>,
      <<"*", ".", "&", "$">>,
      <<".", "*", "&", ".", "$">>,
      <<".", ".", "*", "&", "$">>,
      <<".", "*", ".", "&", "$">>,
      <<"*", "&", "$", "\n", ".", "#", "#">>,
      <<"*", "&", "$", "\n", ".", ".", "#">>,
      <<".", "*", "&", "$", "\n", ".", "#", "#", "#">> }

LiveInit ==
    /\ maze \in LiveMazes
    /\ \E c \in {Game(maze)} :
          /\ error = c.error
          /\ Construct(c.game)
          /\ FailedAt = IF c.game.Failed THEN 0 ELSE -1
          /\ Untrained(EmptyTable, 0)
    /\ call = [op |-> "Game", ret |-> FALSE]

\* one call of train() in a run of at most MaxLive calls
live(random_generator) ==
    /\ trained < MaxLive
    /\ TrainCall(random_generator)

LiveNext == \E random_generator \in RandomGenerators : live(random_generator)

\* the call of train() as the counter sees it
Called == trained < MaxLive /\ trained' = trained + 1

LiveSpec == LiveInit /\ [][LiveNext]_vars /\ WF_trained(Called)

(***************************************************************************)
(* The table alone: the public operations of QTable on the table Q         *)
(***************************************************************************)
\* states, values and rows given to the operations of the table
KeyInputs == {{}, {0, 2}}
ValueInputs == {0, 3 * Unit}
RowInputs == {ZeroRow, <<Unit, 2 * Unit, 3 * Unit, 4 * Unit>>}

TableInit ==
    /\ maze = CorridorMaze
    /\ \E c \in {Game(maze)} :
          /\ error = c.error
          /\ Construct(c.game)
          /\ FailedAt = IF c.game.Failed THEN 0 ELSE -1
    /\ call = [op |-> "Game", ret |-> FALSE]
    /\ Untrained(EmptyTable, DefaultEpsilon)

QGet(state, action) ==
    /\ call' = [op |-> "Get", state |-> state, action |-> action,
                ret |-> Get(Q, state, action)]
    /\ UNCHANGED <<maze, error, fields, FailedAt, learner>>

QGetRow(state) ==
    /\ call' = [op |-> "GetRow", state |-> state, ret |-> GetRow(Q, state)]
    /\ UNCHANGED <<maze, error, fields, FailedAt, learner>>

QSet(state, action, value) ==
    /\ Q' = Set(Q, state, action, value)
    /\ written' = written \cup {state}
    /\ call' = [op |-> "Set", state |-> state, action |-> action, value |-> value,
                ret |-> FALSE]
    /\ UNCHANGED <<maze, error, fields, FailedAt, epsilon, train_result, trained, loop>>

QSetRow(state, row) ==
    /\ Q' = SetRow(Q, state, row)
    /\ written' = written \cup {state}
    /\ call' = [op |-> "SetRow", state |-> state, row |-> row, ret |-> FALSE]
    /\ UNCHANGED <<maze, error, fields, FailedAt, epsilon, train_result, trained, loop>>

QCheck(state) ==
    /\ call' = [op |-> "Check", state |-> state, ret |-> Check(Q, state)]
    /\ UNCHANGED <<maze, error, fields, FailedAt, learner>>

TableNext ==
    \E state \in KeyInputs :
        \/ \E action \in DirectionInputs : QGet(state, action)
        \/ QGetRow(state)
        \/ \E action \in DirectionInputs, value \in ValueInputs : QSet(state, action, value)
        \/ \E row \in RowInputs : QSetRow(state, row)
        \/ QCheck(state)

TableSpec == TableInit /\ [][TableNext]_vars

(***************************************************************************)
(* RunAlgorithm (unnamed/part_000): the loops around train() and the       *)
(* handler of SIGINT.  A step is one statement; a Train call is two steps, *)
(* the selection with the Move and the write of the table, and the handler *)
(* runs between any two steps                                              *)
(***************************************************************************)
\* the greatest value given to --quiet
MaxQuiet == 2

LoopMazes == {CorridorMaze, TrapMaze}

\* the state at line 151, after interrupted = false
LoopInit ==
    /\ maze \in LoopMazes
    /\ \E c \in {Game(maze)} :
          /\ error = c.error
          /\ Construct(c.game)
          /\ FailedAt = IF c.game.Failed THEN 0 ELSE -1
    /\ call = [op |-> "Game", ret |-> FALSE]
    /\ Q = EmptyTable
    /\ epsilon = DefaultEpsilon
    /\ train_result = TrainResultNoAction(State, ZeroRow)
    /\ trained = 0
    /\ written = {}
    /\ interrupted = FALSE
    /\ quiet \in 0 .. MaxQuiet
    /\ pc = "quiet"
    /\ pending = {}
    /\ after = 0

\* the handler: interrupted = true
Interrupt ==
    /\ ~interrupted
    /\ interrupted' = TRUE
    /\ call' = [op |-> "SIGINT", ret |-> pending # {}]
    /\ UNCHANGED <<maze, error, fields, FailedAt, Q, epsilon, train_result, trained, written,
                   quiet, pc, pending, after>>

\* while (!interrupted && quiet-- > 1)
QuietTest ==
    /\ pc = "quiet"
    /\ IF interrupted
       THEN pc' = "check" /\ quiet' = quiet
       ELSE /\ quiet' = quiet - 1
            /\ pc' = IF quiet > 1 THEN "quiet_train" ELSE "check"
    /\ UNCHANGED <<maze, error, fields, call, FailedAt, Q, epsilon, train_result, trained,
                   written, interrupted, pending, after>>

\* if (interrupted) return true
InterruptedTest ==
    /\ pc = "check"
    /\ pc' = IF interrupted THEN "done" ELSE "first"
    /\ UNCHANGED <<maze, error, fields, call, FailedAt, Q, epsilon, train_result, trained,
                   written, interrupted, quiet, pending, after>>

\* train_result = quiet >= 0 ? train() : {game.GetState(), Q.Get(game.GetState())}
FirstResult ==
    /\ pc = "first"
    /\ IF quiet >= 0
       THEN pc' = "first_train" /\ train_result' = train_result
       ELSE /\ pc' = "loop"
            /\ train_result' = TrainResultNoAction(State, GetRow(Q, State))
    /\ UNCHANGED <<maze, error, fields, call, FailedAt, Q, epsilon, trained, written,
                   interrupted, quiet, pending, after>>

\* a loop that never reads the flag: while (true)
LoopTestForever ==
    /\ pc = "loop"
    /\ pc' = "show"
    /\ UNCHANGED <<maze, error, fields, call, FailedAt, Q, epsilon, train_result, trained,
                   written, interrupted, quiet, pending, after>>

\* while (!interrupted)
LoopTest ==
    /\ pc = "loop"
    /\ pc' = IF interrupted THEN "done" ELSE "show"
    /\ UNCHANGED <<maze, error, fields, call, FailedAt, Q, epsilon, train_result, trained,
                   written, interrupted, quiet, pending, after>>

\* the body of the loop up to the sleep: prints the game, the row and the
\* result, writes nothing
Show ==
    /\ pc = "show"
    /\ pc' = "loop_train"
    /\ UNCHANGED <<maze, error, fields, call, FailedAt, Q, epsilon, train_result, trained,
                   written, interrupted, quiet, pending, after>>

\* train() up to the return of game.Move or game.Restart
TrainBegin(random_generator) ==
    /\ pc \in {"quiet_train", "first_train", "loop_train"}
    /\ pending = {}
    /\ trained < MaxTrain
    /\ \E r \in {Train(random_generator, Self, Q, epsilon)} :
          /\ Store(r.game)
          /\ pending' = {r}
          /\ FailedAt' = IF r.game.TimeElapsed = 0 THEN (IF r.game.Failed THEN 0 ELSE -1)
                         ELSE IF FailedAt = -1 /\ r.game.Failed THEN r.game.TimeElapsed
                         ELSE FailedAt
    /\ after' = IF interrupted THEN after + 1 ELSE after
    /\ UNCHANGED <<maze, error, call, Q, epsilon, train_result, trained, written,
                   interrupted, quiet, pc>>

\* the rest of train(): Q.Set and the return of the TrainResult
TrainEnd ==
    /\ pending # {}
    /\ \E r \in pending :
          /\ Q' = r.map
          /\ written' = written \cup DOMAIN r.map
          /\ train_result' = IF pc = "quiet_train" THEN train_result ELSE r.result
    /\ trained' = trained + 1
    /\ pending' = {}
    /\ pc' = IF pc = "quiet_train" THEN "quiet" ELSE "loop"
    /\ UNCHANGED <<maze, error, fields, call, FailedAt, epsilon, interrupted, quiet, after>>

LoopNext ==
    \/ Interrupt
    \/ QuietTest
    \/ InterruptedTest
    \/ FirstResult
    \/ LoopTest
    \/ Show
    \/ \E random_generator \in RandomGenerators : TrainBegin(random_generator)
    \/ TrainEnd

LoopSpec == LoopInit /\ [][LoopNext]_vars

(***************************************************************************)
(* Properties                                                              *)
(***************************************************************************)
Constructed == error = NoError

Add(p, q) == <<p[1] + q[1], p[2] + q[2]>>

\* the cell p of the classification grid m carries the flag
FlagAt(m, p, flag) == BitAnd(m[p[1]][p[2]], flag) # 0

\* d is a member of the current legal-direction set
Legal(d) == d \in {Up, Left, Right, Down} /\ BitAnd(Directions, d) # 0

\* C1: box conservation: in every state reachable by Move and Restart the
\* number of box positions is the number of boxes the maze was built with
BoxConservation ==
    Constructed => /\ Cardinality(BoxPos) = Cardinality(BoxPos0)
                   /\ Cardinality(BoxPos0) =
                        Cardinality({i \in 1 .. Len(maze) : maze[i] \in {"&", "@"}})

\* after an accepted Move the player faces two boxes in a row, the push that
\* would put one box on the other
BoxConservationWitness ==
    /\ Constructed /\ call.op = "Move" /\ TimeElapsed > 0
    /\ \E d \in {Up, Left, Right, Down} :
          /\ Add(PlayerPos, Movement(d)) \in BoxPos
          /\ Add(Add(PlayerPos, Movement(d)), Movement(d)) \in BoxPos
          /\ ~Legal(d)

\* C2: Failed is sound: once a state of the episode was Failed, no sequence
\* of Move calls reaches a state with Succeeded
FailedSound == (Constructed /\ FailedAt >= 0) => ~Succeeded

\* a box has been pushed after the position was found Failed
FailedSoundWitness ==
    /\ Constructed /\ FailedAt >= 0 /\ TimeElapsed > FailedAt
    /\ call.op = "Move" /\ call.ret

\* C3: legality soundness: Move(d) with d outside the legal-direction set
\* (NoDirection and values that are no single direction bit included)
\* returns false and leaves every field of the game unchanged
LegalitySoundness ==
    [][\/ call'.ret = FALSE /\ UNCHANGED <<fields, maze, error, FailedAt>>
       \/ \A d \in DirectionInputs : ~(~Legal(d) /\ Move(d))]_vars

\* a Move was rejected in a state that has legal directions
LegalitySoundnessWitness ==
    /\ Constructed /\ call.op = "Move" /\ TimeElapsed = 0
    /\ Directions # NoDirection /\ StateHistory = {}

\* C4: push exclusivity: an accepted Move in direction d that pushes a box
\* from player position p leaves the player at p+d, no box at p+d, a box at
\* p+2d, and every other box and every goal where it was
PushExclusivity ==
    [][\A d \in DirectionInputs :
          (call'.ret /\ Move(d)) =>
              LET from == Add(PlayerPos, Movement(d))
                  to == Add(from, Movement(d))
              IN /\ Legal(d)
                 /\ from \in BoxPos
                 /\ PlayerPos' = from
                 /\ from \notin BoxPos'
                 /\ to \in BoxPos'
                 /\ BoxPos' \ {to} = BoxPos \ {from}
                 /\ GoalPos' = GoalPos
                 /\ ~FlagAt(Maze', from, IsBox)
                 /\ FlagAt(Maze', to, IsBox)
                 /\ \A i \in 0 .. Height - 1, j \in 0 .. Width - 1 :
                       /\ <<i, j>> \notin {from, to} =>
                            FlagAt(Maze', <<i, j>>, IsBox) = FlagAt(Maze, <<i, j>>, IsBox)
                       /\ FlagAt(Maze', <<i, j>>, IsGoal) = FlagAt(Maze, <<i, j>>, IsGoal)
                       /\ FlagAt(Maze', <<i, j>>, IsFloor) = FlagAt(Maze, <<i, j>>, IsFloor)]_vars

\* a box was pushed while another box stood on the board
PushExclusivityWitness ==
    /\ Constructed /\ call.op = "Move" /\ call.ret
    /\ Cardinality(BoxPos) = 2

\* C5: terminal exclusivity: Succeeded and Failed are never both true
TerminalExclusivity == Constructed => ~(Succeeded /\ Failed)

\* a push completed the game and left a position in which no box can be
\* pushed any more
TerminalExclusivityWitness ==
    /\ Constructed /\ call.op = "Move" /\ call.ret /\ Succeeded
    /\ ~CanPushAny(Self, PlayerPos[1], PlayerPos[2], {}).ret

\* C6: Restart from any state yields exactly the state that existed right
\* after construction, so a second Restart changes nothing
RestartResets ==
    (Constructed /\ call.op = "Restart") =>
        /\ Self = Game(maze).game
        /\ TimeElapsed = 0 /\ StateHistory = {}
        /\ PlayerPos = PlayerPos0 /\ BoxPos = BoxPos0
        /\ DoRestart(Self) = Self

\* Restart has been called
RestartResetsWitness == Constructed /\ call.op = "Restart"

\* the value of the field of State for the player (k = 0) or for the box
\* that is k-th in position order
FieldValue(k) ==
    IF k = 0 THEN FloorIndex[PlayerPos[1]][PlayerPos[2]]
    ELSE LET b == CHOOSE p \in BoxPos : Cardinality({q \in BoxPos : PosLess(q, p)}) = k - 1
         IN FloorIndex[b[1]][b[2]]

\* the layout of the key: field k holds bit j of its value at FloorBits * k + j
CanonicalState ==
    {i \in 0 .. StateBits - 1 :
        /\ i < FloorBits * (Cardinality(BoxPos) + 1)
        /\ (FieldValue(i \div FloorBits) \div Pow2(i % FloorBits)) % 2 = 1}

\* C7: encoding canonicality: State is determined by the player cell and the
\* set of box cells: the player's floor index in the low field, the boxes'
\* floor indices in the higher fields in sorted position order
EncodingCanonical == Constructed => State = CanonicalState

\* a position with two boxes entered again in the same episode
EncodingCanonicalWitness ==
    /\ Constructed /\ call.op = "Move" /\ State \in StateHistory
    /\ Cardinality(BoxPos) = 2

FloorCellsOf(index) ==
    {p \in (0 .. Height - 1) \X (0 .. Width - 1) : index[p[1]][p[2]] >= 0}

\* the number held by the k-th field of the key
RECURSIVE DecodeField(_, _)
DecodeField(k, j) ==
    IF j >= FloorBits THEN 0
    ELSE (IF FloorBits * k + j \in State THEN Pow2(j) ELSE 0) + DecodeField(k, j + 1)

CellsOfIndex(n) == {p \in FloorCellsOf(FloorIndex) : FloorIndex[p[1]][p[2]] = n}

\* C8: the encoding is collision-free: floor indices are distinct ordinals
\* in 0..floor_count-1 that fit in FloorBits bits, and the player cell and
\* the set of box cells are recovered from State
EncodingCollisionFree ==
    Constructed =>
        /\ \A p, q \in FloorCellsOf(FloorIndex) :
              p # q => FloorIndex[p[1]][p[2]] # FloorIndex[q[1]][q[2]]
        /\ \A p \in FloorCellsOf(FloorIndex) :
              /\ FloorIndex[p[1]][p[2]] < Cardinality(FloorCellsOf(FloorIndex))
              /\ FloorIndex[p[1]][p[2]] < Pow2(FloorBits)
        /\ FloorBits * (Cardinality(BoxPos0) + 1) <= StateBits
        /\ CellsOfIndex(DecodeField(0, 0)) = {PlayerPos}
        /\ UNION {CellsOfIndex(DecodeField(k, 0)) : k \in 1 .. Cardinality(BoxPos0)} = BoxPos
        /\ \A i \in State : i < FloorBits * (Cardinality(BoxPos0) + 1)

\* after a push, a game of two boxes on a maze whose highest floor index
\* needs all FloorBits bits
EncodingCollisionFreeWitness ==
    /\ Constructed /\ call.op = "Move" /\ call.ret
    /\ Cardinality(BoxPos) = 2
    /\ \E b \in BoxPos : FloorIndex[b[1]][b[2]] >= Pow2(FloorBits - 1)

\* C9: Finished is the number of boxes on goal cells, and Succeeded holds
\* exactly when Finished is the number of boxes of the maze
FinishedCount ==
    Constructed =>
        /\ Finished = Cardinality(BoxPos \cap GoalPos)
        /\ Succeeded <=> (Finished = Cardinality(BoxPos0))

\* a push has put the last box that was off goal on a goal
FinishedCountWitness ==
    /\ Constructed /\ call.op = "Move" /\ call.ret /\ Succeeded
    /\ Cardinality(BoxPos0) = 2
    /\ Cardinality(GoalPos) = Cardinality(BoxPos0)

\* the positions that Move calls reach from g, with the counters of the
\* episode left out
Position(g) == [g EXCEPT !.TimeElapsed = 0, !.StateHistory = {}]

RECURSIVE ReachableFrom(_, _)
ReachableFrom(seen, frontier) ==
    IF frontier = {} THEN seen
    ELSE LET new == {Position(DoMove(g, d).game) :
                        g \in frontier, d \in {Up, Left, Right, Down}} \ seen
         IN ReachableFrom(seen \cup new, new)

\* C10 as stated: in the scenario maze the push of the box onto the goal can
\* be carried out from the initial position and yields Finished = 1 and
\* Succeeded
ScenarioPushSucceeds ==
    (Constructed /\ maze = ScenarioMaze /\ call.op = "Game") =>
        \E g \in ReachableFrom({Position(Self)}, {Position(Self)}) :
            g.Finished = 1 /\ g.Succeeded

\* C10, amended: in the scenario maze the box cannot be pushed onto the
\* goal: the game is Failed from construction on, and in every position
\* that Move and Restart calls reach Finished = 0 and Succeeded is false
ScenarioUnsolvable ==
    (Constructed /\ maze = ScenarioMaze) =>
        /\ Failed /\ Finished = 0 /\ ~Succeeded
        /\ \A g \in ReachableFrom({Position(Self)}, {Position(Self)}) :
              g.Failed /\ g.Finished = 0 /\ ~g.Succeeded

\* the box of the scenario maze has been pushed
ScenarioUnsolvableWitness ==
    /\ Constructed /\ maze = ScenarioMaze
    /\ call.op = "Move" /\ call.ret /\ BoxPos # BoxPos0

\* p is a floor cell inside the grid
OnFloor(p) ==
    /\ p[1] \in 0 .. Height - 1
    /\ p[2] \in 0 .. Width - 1
    /\ FloorIndex[p[1]][p[2]] >= 0

\* boxes off goal with a wall or the outside of the grid above or below and
\* a wall or the outside of the grid to the left or to the right
CornerBoxes ==
    {b \in BoxPos :
        /\ b \notin GoalPos
        /\ ~OnFloor(Add(b, Movement(Up))) \/ ~OnFloor(Add(b, Movement(Down)))
        /\ ~OnFloor(Add(b, Movement(Left))) \/ ~OnFloor(Add(b, Movement(Right)))}

\* C11: corner freeze: a state, after construction, Restart or Move, with a
\* box off goal that has a wall or off-grid cell as a vertical neighbour and
\* one as a horizontal neighbour is Failed
CornerFreeze == (Constructed /\ CornerBoxes # {}) => Failed

\* a push has just put a box into a corner, in an episode that was not
\* Failed before
CornerFreezeWitness ==
    /\ Constructed /\ call.op = "Move" /\ call.ret
    /\ CornerBoxes # {} /\ FailedAt = TimeElapsed

\* the rule of the legal-direction mask for d: the next cell is floor, and
\* when it holds a box the cell behind it is floor and holds no box
CanStep(d) ==
    LET p1 == Add(PlayerPos, Movement(d))
        p2 == Add(p1, Movement(d))
    IN /\ OnFloor(p1)
       /\ p1 \in BoxPos => (OnFloor(p2) /\ p2 \notin BoxPos)

\* C12: in every reachable state the legal-direction mask holds d exactly
\* when the cell next to the player in direction d is floor and, if it holds
\* a box, the cell two steps away is floor without a box
LegalMask ==
    Constructed =>
        /\ Directions \in 0 .. 15
        /\ \A d \in {Up, Left, Right, Down} : Legal(d) <=> CanStep(d)

\* after an accepted Move the player stands next to a box it can push, next
\* to a free floor cell and next to a cell that is no floor
LegalMaskWitness ==
    /\ Constructed /\ call.op = "Move" /\ TimeElapsed > 0
    /\ \E d, e, f \in {Up, Left, Right, Down} :
          /\ Add(PlayerPos, Movement(d)) \in BoxPos /\ Legal(d)
          /\ ~OnFloor(Add(PlayerPos, Movement(e))) /\ ~Legal(e)
          /\ OnFloor(Add(PlayerPos, Movement(f))) /\ Legal(f)
          /\ Add(PlayerPos, Movement(f)) \notin BoxPos

\* the flag combinations WriteMazeString renders
Renderable ==
    {IsWall, IsFloor, IsFloor + IsGoal, IsFloor + IsBox, IsFloor + IsGoal + IsBox,
     IsFloor + IsPlayer, IsFloor + IsGoal + IsPlayer}

\* C13: placement invariant: there is exactly one player, the player and
\* every box stand on floor cells inside the grid, the player's cell holds
\* no box, and every cell of the grid is a renderable flag combination
PlacementInvariant ==
    Constructed =>
        /\ OnFloor(PlayerPos)
        /\ \A b \in BoxPos : OnFloor(b)
        /\ PlayerPos \notin BoxPos
        /\ DOMAIN Maze = 0 .. Height - 1
        /\ \A i \in 0 .. Height - 1 :
              /\ DOMAIN Maze[i] = 0 .. Width - 1
              /\ \A j \in 0 .. Width - 1 :
                    /\ Maze[i][j] \in Renderable
                    /\ FlagAt(Maze, <<i, j>>, IsPlayer) <=> (<<i, j>> = PlayerPos)
                    /\ FlagAt(Maze, <<i, j>>, IsBox) <=> (<<i, j>> \in BoxPos)
                    /\ FlagAt(Maze, <<i, j>>, IsGoal) <=> (<<i, j>> \in GoalPos)
                    /\ FlagAt(Maze, <<i, j>>, IsFloor) <=> (FloorIndex[i][j] >= 0)

\* the player has pushed a box off a goal and stands on that goal
PlacementInvariantWitness ==
    /\ Constructed /\ call.op = "Move" /\ call.ret
    /\ PlayerPos \in GoalPos

\* the number of characters of the text that are in the set
CountOf(text, symbols) == Cardinality({i \in 1 .. Len(text) : text[i] \in symbols})

\* the text has a row with more than n characters other than CR
RowLongerThan(text, n) ==
    \E i \in 1 .. Len(text) :
        /\ text[i] \notin {"\n", "\r"}
        /\ Cardinality({j \in 1 .. i : /\ text[j] \notin {"\n", "\r"}
                                       /\ \A k \in j .. i : text[k] # "\n"}) > n

\* ceil(log2(n)) for n >= 1
CeilLog2(n) == CHOOSE k \in 0 .. SizeWidth : Pow2(k) >= n /\ (k = 0 \/ Pow2(k - 1) < n)

\* the conditions under which the constructor is said to fail, read off the
\* text of the maze without its leading and trailing line feeds
ConstructionRefused(text) ==
    LET t == StripBack(StripFront(text))
        players == CountOf(t, {"*", "+"})
        boxes == CountOf(t, {"&", "@"})
        goals == CountOf(t, {"$", "+", "@"})
        floor_count == CountOf(t, {".", "*", "$", "&", "+", "@"})
    IN \/ CountOf(t, {"\n"}) + 1 > MaxAxis
       \/ RowLongerThan(t, MaxAxis)
       \/ players > 1
       \/ players = 0
       \/ boxes = 0
       \/ boxes > goals
       \/ CeilLog2(floor_count) * (boxes + 1) > StateBits

\* C14: construction raises Sokoban::Error exactly when the maze has more
\* than 125 rows or columns, more than one player, no player, no box, more
\* boxes than goals, or FloorBits * (boxes + 1) > StateBits with
\* FloorBits = ceil(log2(floor count)); otherwise it succeeds
ConstructionErrors ==
    (call.op = "Game") => ((error # NoError) <=> ConstructionRefused(maze))

\* the constructor refused a maze within the axis limits whose key needs
\* more than StateBits bits
ConstructionErrorsWitness ==
    /\ call.op = "Game" /\ error = "Maze Too Large"
    /\ Len(maze) <= MaxAxis
    /\ CountOf(maze, {"*", "+"}) = 1

\* C15: the default of the table: for a state no Set was given, Get(state,
\* action) is 0 for every action and Get(state) is the row of zeros; and
\* Get(state, action) is 0 for every action that is none of the four
\* directions, whatever the row of the state holds
QTableDefault ==
    /\ \A state \in KeyInputs \ written :
          /\ GetRow(Q, state) = ZeroRow
          /\ \A action \in DirectionInputs : Get(Q, state, action) = 0
    /\ \A state \in KeyInputs, action \in DirectionInputs \ {Up, Left, Right, Down} :
          Get(Q, state, action) = 0
    /\ (call.op = "Get" /\ (call.state \notin written \/ Slot(call.action) = 0)) =>
          call.ret = 0
    /\ (call.op = "GetRow" /\ call.state \notin written) => call.ret = ZeroRow

\* Get was called for a state without an entry while the other state has a
\* row without a zero
QTableDefaultWitness ==
    /\ call.op = "Get" /\ call.state \notin written
    /\ \E state \in DOMAIN Q : \A i \in 1 .. 4 : Q[state][i] # 0

\* C16: Train called while the game is Succeeded or Failed performs Restart,
\* takes no action, draws nothing, leaves the table as it is and reports the
\* state before the Restart with its row as OldRow and as NewRow
TerminalTrain ==
    [][((Succeeded \/ Failed) /\ call'.op = "Train") =>
          /\ Self' = DoRestart(Self)
          /\ TimeElapsed' = 0 /\ StateHistory' = {}
          /\ PlayerPos' = PlayerPos0 /\ BoxPos' = BoxPos0
          /\ train_result'.Action = NoDirection
          /\ Q' = Q
          /\ train_result'.LastState = State
          /\ train_result'.OldRow = GetRow(Q, State)
          /\ train_result'.NewRow = train_result'.OldRow
          /\ call'.draws = 0]_vars

\* Train has restarted a game that had left its initial state, with a table
\* that holds rows
TerminalTrainWitness ==
    /\ call.op = "Train" /\ train_result.Action = NoDirection
    /\ train_result.LastState # State
    /\ DOMAIN Q # {}

\* the reward of the step into the primed state
StepReward ==
    goal_reward * (Finished' - Finished)
    + (IF call'.ret THEN push_reward ELSE 0)
    - (IF State' \in StateHistory' THEN retrace_penalty ELSE 0)
    + (IF Succeeded' THEN success_reward ELSE 0)
    - (IF Failed' THEN failure_penalty ELSE 0)

\* the values a bootstrap is taken from: the values of the legal directions
\* of the new state in the table before the write, and the floor
BootstrapValues ==
    {Get(Q, State', d) : d \in {e \in {Up, Left, Right, Down} : BitAnd(Directions', e) # 0}}
    \cup {-(retrace_penalty + failure_penalty + goal_reward * Cardinality(BoxPos0))}

\* C17: Train in a non-terminal state writes exactly one entry of the table,
\* Q[last_state][action] = (1 - alpha) * old + alpha * (reward + gamma *
\* bootstrap), for the state before the move and the selected direction;
\* every other entry is unchanged, and NewRow differs from OldRow at most
\* in the slot of the action
TrainUpdate ==
    [][(~(Succeeded \/ Failed) /\ call'.op = "Train") =>
          LET last_state == State
              action == train_result'.Action
          IN /\ action \in {Up, Left, Right, Down}
             /\ train_result'.LastState = last_state
             /\ \E bootstrap \in BootstrapValues :
                   alpha.den * gamma.den * Get(Q', last_state, action)
                     = gamma.den * (alpha.den - alpha.num) * Get(Q, last_state, action)
                       + alpha.num * (gamma.den * StepReward + gamma.num * bootstrap)
             /\ DOMAIN Q' = DOMAIN Q \cup {last_state}
             /\ \A s \in DOMAIN Q', d \in {Up, Left, Right, Down} :
                   (s # last_state \/ d # action) => Get(Q', s, d) = Get(Q, s, d)
             /\ train_result'.OldRow = GetRow(Q, last_state)
             /\ train_result'.NewRow = GetRow(Q', last_state)
             /\ \A i \in 1 .. 4 :
                   i # Slot(action) => train_result'.NewRow[i] = train_result'.OldRow[i]]_vars

\* Train has written an entry that held a value other than 0 before, in a
\* table with a row for another state
TrainUpdateWitness ==
    /\ call.op = "Train" /\ train_result.Action # NoDirection
    /\ train_result.OldRow[Slot(train_result.Action)] # 0
    /\ train_result.NewRow # train_result.OldRow
    /\ DOMAIN Q # {train_result.LastState}

\* C18: FindAction returns NoDirection exactly when the legal-direction mask
\* is empty; otherwise, for every epsilon, table and random draw, it
\* returns one direction bit that is in the mask
FindActionLegal ==
    /\ \A random_generator \in RandomGenerators, eps \in Epsilons :
          LET action == FindAction(random_generator, eps, Self, Q).ret
          IN /\ (action = NoDirection) <=> (Directions = NoDirection)
             /\ Directions # NoDirection => Legal(action)
    /\ call.op = "FindAction" =>
          /\ (call.ret = NoDirection) <=> (Directions = NoDirection)
          /\ Directions # NoDirection => Legal(call.ret)

\* FindAction has drawn twice and returned a direction whose value in the
\* table is below the value of another legal direction
FindActionLegalWitness ==
    /\ call.op = "FindAction" /\ call.draws = 2
    /\ \E d \in {Up, Left, Right, Down} :
          Legal(d) /\ Get(Q, State, d) > Get(Q, State, call.ret)

\* C20: a state that is not Succeeded and has an empty legal-direction mask
\* is Failed, so a state that is neither Succeeded nor Failed has a legal
\* direction; and Train in such a state selects a legal direction and makes
\* an accepted Move: TimeElapsed grows by exactly 1
EmptyMaskFailed ==
    /\ []((~Succeeded /\ Directions = NoDirection) => Failed)
    /\ []((~Succeeded /\ ~Failed) => Directions # NoDirection)
    /\ [][(~(Succeeded \/ Failed) /\ call'.op = "Train") =>
             /\ Legal(train_result'.Action)
             /\ TimeElapsed' = TimeElapsed + 1
             /\ PlayerPos' = Add(PlayerPos, Movement(train_result'.Action))
             /\ StateHistory' = StateHistory \cup {State}]_vars

\* Train has made a third Move in a row
EmptyMaskFailedWitness ==
    /\ call.op = "Train" /\ train_result.Action # NoDirection
    /\ TimeElapsed >= 3

\* the game after the moves of a learner that follows the table without a
\* draw deciding: FALSE when a full tie, a Failed state or the end of the
\* steps comes before Succeeded
RECURSIVE GreedyWalk(_, _, _)
GreedyWalk(g, map, steps) ==
    IF g.Succeeded THEN TRUE
    ELSE IF g.Failed \/ steps = 0 THEN FALSE
    ELSE \E found \in {FindAction([real |-> 0, int |-> 0], 0, g, map)} :
            /\ found.draws < 2
            /\ GreedyWalk(DoMove(g, found.ret).game, map, steps - 1)

\* the greedy policy has converged: followed from the initial state and
\* from the present state it ends in Succeeded
Converged ==
    /\ GreedyWalk(DoRestart(Self), Q, MaxLive)
    /\ GreedyWalk(Self, Q, MaxLive)

\* C19: on a one-box maze whose goal pushes can reach, repeated Train calls
\* with epsilon 0 reach a Succeeded state and reach a converged greedy
\* policy, whatever the draws of the full ties are; and once the policy has
\* converged it stays converged, so no later episode ends Failed
GreedyReachesSuccess ==
    /\ <>Succeeded
    /\ <>Converged
    /\ [](Converged => [](Converged /\ ~Failed))

\* an episode has ended Succeeded under a converged policy after an earlier
\* episode ended Failed
GreedyReachesSuccessWitness ==
    /\ Succeeded /\ Converged
    /\ call.op = "Train" /\ trained > TimeElapsed + 1
    /\ \E state \in DOMAIN Q : \E i \in 1 .. 4 : 4 * Q[state][i] < -failure_penalty

\* the cells the player reaches by walking without a push
RECURSIVE WalkFrom(_, _)
WalkFrom(seen, frontier) ==
    IF frontier = {} THEN seen
    ELSE LET new == {q \in {Add(p, Movement(d)) : p \in frontier, d \in {Up, Left, Right, Down}} :
                        OnFloor(q) /\ q \notin BoxPos} \ seen
         IN WalkFrom(seen \cup new, new)

\* a push of a single box is legal from a cell the player can walk to
PushReachable ==
    \E p \in WalkFrom({PlayerPos}, {PlayerPos}), d \in {Up, Left, Right, Down} :
        /\ Add(p, Movement(d)) \in BoxPos
        /\ OnFloor(Add(Add(p, Movement(d)), Movement(d)))
        /\ Add(Add(p, Movement(d)), Movement(d)) \notin BoxPos

\* C21: reachability check: a state that is not Succeeded, in which no
\* cell the player reaches by walking without a push (its own cell
\* included) has a direction with a legal single-box push, is Failed
ReachabilityCheck ==
    (Constructed /\ ~Succeeded /\ ~PushReachable) => Failed

\* after a Move the player can still walk, no push is within its reach, and
\* no box is found frozen
ReachabilityCheckWitness ==
    /\ Constructed /\ call.op = "Move" /\ TimeElapsed > 0
    /\ ~Succeeded /\ ~PushReachable /\ Directions # NoDirection
    /\ ~AnyBoxFailed(Self, SetOrder(BoxPos), 1)

\* the maximal run of floor cells through b along the step
RECURSIVE RunFrom(_, _)
RunFrom(p, step) == IF OnFloor(p) THEN {p} \cup RunFrom(Add(p, step), step) ELSE {}

Run(b, step) == RunFrom(b, step) \cup RunFrom(b, <<-step[1], -step[2]>>)

\* the step along the wall on the side w, and the side WallStuck is given for it
Along(w) == IF w \in {Up, Down} THEN <<0, 1>> ELSE <<1, 0>>
Opposite(w) == IF w = Up THEN Down ELSE IF w = Down THEN Up ELSE IF w = Left THEN Right ELSE Left

\* no cell of the run through b along the wall on side w has floor on that side
Closed(b, w) == \A p \in Run(b, Along(w)) : ~OnFloor(Add(p, Movement(w)))

\* the run through b along the wall on side w holds more boxes than goals
Overfull(b, w) ==
    Cardinality(Run(b, Along(w)) \cap BoxPos) > Cardinality(Run(b, Along(w)) \cap GoalPos)

\* C22: wall-run check: for a box off goal with a wall or off-grid cell on
\* the side w, take the maximal floor run through the box along that wall.
\* If no cell of the run has floor on the side w and the run holds more
\* boxes than goals, the state is Failed; if some cell of the run has floor
\* on the side w, the check for that side does not flag; the check flags
\* in no other case
WallRunCheck ==
    Constructed =>
        \A b \in BoxPos \ GoalPos, w \in {Up, Left, Right, Down} :
            ~OnFloor(Add(b, Movement(w))) =>
                /\ (Closed(b, w) /\ Overfull(b, w)) => Failed
                /\ ~Closed(b, w) => ~WallStuck(Self, b[1], b[2], Opposite(w))
                /\ WallStuck(Self, b[1], b[2], Opposite(w)) <=> (Closed(b, w) /\ Overfull(b, w))

\* a push has put a box against a wall, on a run without an opening that
\* holds a goal and more boxes than goals, and the game has failed with it
WallRunCheckWitness ==
    /\ Constructed /\ call.op = "Move" /\ call.ret /\ FailedAt = TimeElapsed
    /\ \E b \in BoxPos \ GoalPos, w \in {Up, Left, Right, Down} :
          /\ ~OnFloor(Add(b, Movement(w)))
          /\ Closed(b, w) /\ Overfull(b, w)
          /\ Run(b, Along(w)) \cap GoalPos # {}

\* a box off goal lies against a wall on a run with an opening on the wall
\* side, and the game has not failed
WallRunOpenWitness ==
    /\ Constructed /\ call.op = "Move" /\ call.ret /\ ~Failed
    /\ \E b \in BoxPos \ GoalPos, w \in {Up, Left, Right, Down} :
          /\ ~OnFloor(Add(b, Movement(w)))
          /\ ~Closed(b, w) /\ Overfull(b, w)

\* what each of the three checks of CheckFailed finds in the position g
MaskFlags(g) == g.Directions = NoDirection
BoxFlags(g) == AnyBoxFailed(g, SetOrder(g.BoxPos), 1)
ReachFlags(g) == ~CanPushAny(g, g.PlayerPos[1], g.PlayerPos[2], {}).ret

\* C23 as stated: each of the three checks flags some position that is not
\* Succeeded and that the other two do not flag; for check 1 (no legal
\* direction) the mazes given to the constructor hold no such position
AllChecksNeeded ==
    call.op \in {"Game", "Move", "Restart"} =>
        /\ \E m \in Mazes :
              \E c \in {Game(m)} :
                 /\ c.error = NoError /\ ~c.game.Succeeded
                 /\ MaskFlags(c.game) /\ ~BoxFlags(c.game) /\ ~ReachFlags(c.game)
        /\ \E c \in {Game(ScenarioMaze)} :
              ~c.game.Succeeded /\ ~MaskFlags(c.game) /\ BoxFlags(c.game) /\ ~ReachFlags(c.game)
        /\ \E c \in {Game(ShutOutMaze)} :
              ~c.game.Succeeded /\ ~MaskFlags(c.game) /\ ~BoxFlags(c.game) /\ ReachFlags(c.game)

\* C23, amended: check 2 (frozen box / wall run) and check 3 (no push within
\* reach) are each needed: the scenario maze is flagged by check 2 alone
\* and the maze with the player walled off by check 3 alone.  Check 1 is
\* not: a position without a legal direction has no push within reach, so
\* check 3 flags every position that check 1 flags
TwoChecksNeeded ==
    (Constructed /\ ~Succeeded) =>
        /\ MaskFlags(Self) => ReachFlags(Self)
        /\ (maze = ScenarioMaze /\ TimeElapsed = 0) =>
              (Failed /\ ~MaskFlags(Self) /\ BoxFlags(Self) /\ ~ReachFlags(Self))
        /\ (maze = ShutOutMaze /\ TimeElapsed = 0) =>
              (Failed /\ ~MaskFlags(Self) /\ ~BoxFlags(Self) /\ ReachFlags(Self))

\* the player has no legal direction and no check of the boxes finds one
\* frozen: checks 1 and 3 flag the position, check 2 does not
TwoChecksNeededWitness ==
    /\ Constructed /\ ~Succeeded /\ Failed
    /\ MaskFlags(Self) /\ ~BoxFlags(Self) /\ ReachFlags(Self)

\* C24: an accepted Move returns true exactly if the cell the player steps
\* into held a box; an accepted Move that returns false has advanced the
\* player by one cell in the direction given and has left the set of boxes
\* and Finished as they were
StepWithoutPush ==
    /\ [](Constructed =>
            \A d \in DirectionInputs :
                Legal(d) =>
                    \E r \in {DoMove(Self, d)} :
                        /\ r.ret = (Add(PlayerPos, Movement(d)) \in BoxPos)
                        /\ ~r.ret => /\ r.game.PlayerPos = Add(PlayerPos, Movement(d))
                                     /\ r.game.BoxPos = BoxPos
                                     /\ r.game.Finished = Finished)
    /\ [][(call'.op = "Move" /\ TimeElapsed' # TimeElapsed) =>
             /\ call'.ret = (PlayerPos' \in BoxPos)
             /\ ~call'.ret =>
                   /\ \E d \in {Up, Left, Right, Down} :
                         Legal(d) /\ PlayerPos' = Add(PlayerPos, Movement(d))
                   /\ BoxPos' = BoxPos
                   /\ Finished' = Finished]_vars

\* the player has stepped onto a free cell next to a box, with a box on a goal
StepWithoutPushWitness ==
    /\ Constructed /\ call.op = "Move" /\ ~call.ret /\ TimeElapsed > 0
    /\ Finished > 0 /\ Finished < Cardinality(BoxPos)
    /\ \E d \in {Up, Left, Right, Down} : Add(PlayerPos, Movement(d)) \in BoxPos

\* C25: TimeElapsed counts the accepted Move calls since the last Restart or
\* the construction: it is 0 after both, a Move with a legal direction
\* increases it by exactly 1, every other Move leaves it as it is, and only
\* Restart sets it back
TimeElapsedCounts ==
    /\ [](Constructed =>
            /\ call.op \in {"Game", "Restart"} => TimeElapsed = 0
            /\ \A d \in DirectionInputs :
                  \E r \in {DoMove(Self, d)} :
                      r.game.TimeElapsed = TimeElapsed + (IF Legal(d) THEN 1 ELSE 0))
    /\ [][/\ call'.op = "Move" => TimeElapsed' \in {TimeElapsed, TimeElapsed + 1}
          /\ TimeElapsed' < TimeElapsed => call'.op = "Restart"]_vars

\* Restart has set TimeElapsed to 0 in a game with two boxes
TimeElapsedResetWitness ==
    /\ Constructed /\ call.op = "Restart" /\ TimeElapsed = 0
    /\ FailedAt = 0 /\ Directions # NoDirection /\ Cardinality(BoxPos) = 2

\* Move calls have brought TimeElapsed to MaxTime, one of them back to a
\* state held before
TimeElapsedCountsWitness ==
    /\ Constructed /\ call.op = "Move" /\ ~call.ret /\ TimeElapsed = MaxTime
    /\ Cardinality(StateHistory) < TimeElapsed

\* C26: StateHistory is the set of the encoded states the game held right
\* before each accepted Move since the last Restart or the construction: it
\* is empty after both, an accepted Move inserts the state it leaves and
\* nothing else, and a rejected Move leaves the set as it is.  So the state
\* after an accepted Move is a member exactly if the game held it before
\* in this episode
HistoryOfEpisode ==
    /\ [](Constructed =>
            /\ call.op \in {"Game", "Restart"} => StateHistory = {}
            /\ (TimeElapsed = 0) = (StateHistory = {})
            /\ \A d \in DirectionInputs :
                  \E r \in {DoMove(Self, d)} :
                      /\ r.game.StateHistory =
                            IF Legal(d) THEN StateHistory \cup {State} ELSE StateHistory
                      /\ Legal(d) => r.game.State # State
                      /\ Legal(d) =>
                            ((r.game.State \in r.game.StateHistory) = (r.game.State \in StateHistory)))
    /\ [][(call'.op = "Move" /\ TimeElapsed' # TimeElapsed) =>
             /\ StateHistory' = StateHistory \cup {State}
             /\ (State' \in StateHistory') = (State' \in StateHistory)]_vars

\* an accepted Move has led back to a state of this episode
HistoryOfEpisodeWitness ==
    /\ Constructed /\ call.op = "Move" /\ TimeElapsed >= 2
    /\ State \in StateHistory
    /\ Cardinality(StateHistory) < TimeElapsed

\* the greatest element of a set of numbers
Max(values) == CHOOSE x \in values : \A y \in values : y <= x

\* the values of the legal directions of the new state in the table before
\* the write
LegalValues ==
    {Get(Q, State', d) : d \in {e \in {Up, Left, Right, Down} : BitAnd(Directions', e) # 0}}

\* -(retrace_penalty + failure_penalty + goal_reward * box_count)
BootstrapFloor == -(retrace_penalty + failure_penalty + goal_reward * Cardinality(BoxPos0))

\* what the write of a Train step leaves of the new value once the share of
\* the old value is taken away: alpha * (reward + gamma * bootstrap), times
\* the denominators
Learned ==
    alpha.den * gamma.den * Get(Q', State, train_result'.Action)
    - gamma.den * (alpha.den - alpha.num) * Get(Q, State, train_result'.Action)

\* C27: the reward of a Train step in a non-terminal state is goal_reward
\* times the change of Finished, plus push_reward if and only if the move
\* pushed a box, minus retrace_penalty if and only if the new state was in
\* StateHistory already, plus success_reward if and only if the new state is
\* Succeeded, minus failure_penalty if and only if it is Failed
TrainReward ==
    [][(~(Succeeded \/ Failed) /\ call'.op = "Train") =>
          LET gained == goal_reward * (Finished' - Finished)
              push == IF call'.ret THEN push_reward ELSE 0
              retrace == IF State' \in StateHistory' THEN retrace_penalty ELSE 0
              success == IF Succeeded' THEN success_reward ELSE 0
              failure == IF Failed' THEN failure_penalty ELSE 0
          IN Learned - alpha.num * gamma.num * Max(LegalValues \cup {BootstrapFloor})
               = alpha.num * gamma.den * (gained + push - retrace + success - failure)]_vars

\* a Train step has pushed a box off its goal
TrainRewardWitness ==
    /\ maze = TwoBoxMaze /\ call.op = "Train" /\ call.ret
    /\ Finished = 0 /\ TimeElapsed = 1
    /\ train_result.NewRow # train_result.OldRow

\* a Train step has led back to a state of the episode
TrainRetraceWitness ==
    /\ call.op = "Train" /\ train_result.Action # NoDirection
    /\ State \in StateHistory /\ ~Failed

\* a Train step has ended the episode, with success and with failure
TrainSuccessWitness ==
    /\ call.op = "Train" /\ train_result.Action # NoDirection /\ Succeeded
TrainFailureWitness ==
    /\ call.op = "Train" /\ train_result.Action # NoDirection /\ Failed

\* C28 as stated: the bootstrap of a Train step in a non-terminal state is
\* the greatest value over the legal directions of the new state whenever
\* it has a legal direction, and the floor only when it has none
BootstrapLegalMax ==
    [][(~(Succeeded \/ Failed) /\ call'.op = "Train") =>
          Learned - alpha.num * gamma.den * StepReward
            = alpha.num * gamma.num *
                (IF Directions' # NoDirection THEN Max(LegalValues) ELSE BootstrapFloor)]_vars

\* C28, amended: the bootstrap of a Train step in a non-terminal state is
\* the greater of the floor -(retrace_penalty + failure_penalty + goal_reward
\* * box_count) and the greatest value over the legal directions of the new
\* state: the floor is used when every legal direction has a value below
\* it (the new state always has a legal direction: the step back)
BootstrapFloored ==
    [][(~(Succeeded \/ Failed) /\ call'.op = "Train") =>
          /\ Directions' # NoDirection
          /\ Learned - alpha.num * gamma.den * StepReward
               = alpha.num * gamma.num *
                   (IF Max(LegalValues) >= BootstrapFloor THEN Max(LegalValues)
                    ELSE BootstrapFloor)]_vars

\* a Train step has led to a state with legal directions whose values are
\* all below the floor
BootstrapFlooredWitness ==
    /\ call.op = "Train" /\ train_result.Action # NoDirection
    /\ Directions # NoDirection
    /\ \A d \in {Up, Left, Right, Down} :
          BitAnd(Directions, d) # 0 =>
              Get(Q, State, d) < -(retrace_penalty + failure_penalty
                                    + goal_reward * Cardinality(BoxPos0))

\* a Train step has led to a state with a legal direction whose value is
\* above the floor and not 0
BootstrapValueWitness ==
    /\ call.op = "Train" /\ train_result.Action # NoDirection
    /\ \E d \in {Up, Left, Right, Down} :
          BitAnd(Directions, d) # 0 /\ Get(Q, State, d) > 0

\* the legal directions of the state, and the place of a direction in the
\* enumeration Up, Left, Right, Down
LegalSet == {d \in {Up, Left, Right, Down} : BitAnd(Directions, d) # 0}
Rank(d) == CHOOSE i \in 1 .. 4 : <<Up, Left, Right, Down>>[i] = d

\* the values of all legal directions are equal
AllSame == \A d \in LegalSet, e \in LegalSet : Get(Q, State, d) = Get(Q, State, e)

\* the legal directions whose value no legal direction exceeds
Maximal == {d \in LegalSet : \A e \in LegalSet : Get(Q, State, e) <= Get(Q, State, d)}

\* C29: with two or more legal directions whose values are not all equal
\* and a draw that is not below epsilon (every draw for epsilon = 0),
\* FindAction returns the legal direction of the greatest value, the first
\* of them in the order Up, Left, Right, Down if there are several, and
\* draws no second value
GreedyChoice ==
    (Constructed /\ Cardinality(LegalSet) >= 2 /\ ~AllSame) =>
        /\ \A random_generator \in RandomGenerators, eps \in Epsilons :
              (random_generator.real >= eps \/ eps = 0) =>
                  \E found \in {FindAction(random_generator, eps, Self, Q)} :
                      /\ found.ret \in Maximal
                      /\ \A d \in Maximal : Rank(found.ret) <= Rank(d)
                      /\ found.draws = 1
        /\ (call.op = "FindAction" /\ epsilon = 0) =>
              /\ call.ret \in Maximal
              /\ \A d \in Maximal : Rank(call.ret) <= Rank(d)
              /\ call.draws = 1

\* FindAction has returned, after one draw, the first of two directions of
\* the greatest value, which is not the first legal direction
GreedyChoiceWitness ==
    /\ call.op = "FindAction" /\ call.draws = 1
    /\ Cardinality(LegalSet) >= 3 /\ Cardinality(Maximal) = 2
    /\ \E d \in LegalSet : Rank(d) < Rank(call.ret)

\* FindAction has returned the first of two directions of the greatest value
\* after one draw
GreedyTieWitness ==
    /\ call.op = "FindAction" /\ call.draws = 1
    /\ Cardinality(Maximal) = 2 /\ ~AllSame

\* C30: with two or more legal directions whose values are all equal,
\* FindAction takes a random index over the legal directions for every
\* epsilon and every draw (epsilon = 0 included): it returns the legal
\* direction at the drawn index, and the possible results are the legal
\* directions, all of them and no other
TieRandom ==
    (Constructed /\ Cardinality(LegalSet) >= 2 /\ AllSame) =>
        /\ \A eps \in Epsilons :
              /\ \A random_generator \in RandomGenerators :
                    \E found \in {FindAction(random_generator, eps, Self, Q)} :
                        /\ found.draws = 2
                        /\ found.ret \in LegalSet
                        /\ Cardinality({d \in LegalSet : Rank(d) < Rank(found.ret)})
                             = random_generator.int % Cardinality(LegalSet)
              /\ {FindAction(random_generator, eps, Self, Q).ret :
                     random_generator \in RandomGenerators} = LegalSet
        /\ call.op = "FindAction" => (call.draws = 2 /\ call.ret \in LegalSet)

\* FindAction with epsilon 0 has drawn an index and returned a legal
\* direction that is not the first one, from values that are not 0
TieRandomWitness ==
    /\ call.op = "FindAction" /\ call.draws = 2 /\ epsilon = 0
    /\ Cardinality(LegalSet) >= 2 /\ AllSame
    /\ \E d \in LegalSet : Rank(d) < Rank(call.ret)
    /\ Get(Q, State, call.ret) # 0

\* C31: with exactly one legal direction FindAction returns that direction
\* for every epsilon, every draw and every row of the state in the table,
\* and draws no value from the generator
SingleDirection ==
    (Constructed /\ Cardinality(LegalSet) = 1) =>
        /\ \A random_generator \in RandomGenerators, eps \in Epsilons,
              row \in RowInputs \cup {GetRow(Q, State), <<0, 0, 0, -Unit>>, <<-Unit, 0, 0, 0>>} :
              \E found \in {FindAction(random_generator, eps, Self, SetRow(Q, State, row))} :
                  /\ found.ret \in LegalSet
                  /\ found.draws = 0
        /\ \A random_generator \in RandomGenerators, eps \in Epsilons :
              \E found \in {FindAction(random_generator, eps, Self, Q)} :
                  found.ret \in LegalSet /\ found.draws = 0
        /\ call.op = "FindAction" => (call.ret \in LegalSet /\ call.draws = 0)

\* FindAction has returned the only legal direction without a draw, with
\* epsilon 1 and a table in which another direction has a greater value
SingleDirectionWitness ==
    /\ call.op = "FindAction" /\ call.draws = 0 /\ epsilon = 100
    /\ LegalSet = {call.ret}
    /\ \E d \in {Up, Left, Right, Down} : Get(Q, State, d) > Get(Q, State, call.ret)

\* C32: after Set(s, a, v) with a one of the four directions Get(s, a) is v
\* and Check(s) is true, the value of every other state and action is what
\* it was, and the other three slots of a row this write has created are
\* 0; Get, Get of a row and Check leave the table as it is, so Check(s)
\* is true only after a Set on s
SetSemantics ==
    /\ [](\A state \in DOMAIN Q : state \in written)
    /\ [](\A state \in KeyInputs : Check(Q, state) = (state \in DOMAIN Q))
    /\ [][/\ (call'.op = "Set" /\ Slot(call'.action) # 0) =>
               /\ Get(Q', call'.state, call'.action) = call'.value
               /\ Check(Q', call'.state)
               /\ DOMAIN Q' = DOMAIN Q \cup {call'.state}
               /\ \A state \in KeyInputs \cup DOMAIN Q', action \in {Up, Left, Right, Down} :
                     (state # call'.state \/ action # call'.action) =>
                         Get(Q', state, action) = Get(Q, state, action)
               /\ ~Check(Q, call'.state) =>
                     \A i \in 1 .. 4 :
                         i # Slot(call'.action) => GetRow(Q', call'.state)[i] = 0
          /\ call'.op \in {"Get", "GetRow", "Check"} => Q' = Q
          /\ call'.op = "Check" => call'.ret = (call'.state \in DOMAIN Q)]_vars

\* Set has written a value into a row that held three other values, next to
\* the row of another state
SetSemanticsWitness ==
    /\ call.op = "Set" /\ Slot(call.action) # 0 /\ call.value # 0
    /\ Cardinality(DOMAIN Q) = 2
    /\ \A i \in 1 .. 4 : i # Slot(call.action) => Q[call.state][i] # 0
    /\ Q[call.state][Slot(call.action)] = call.value

\* Set has created a row: the value in its slot, 0 in the three others
SetCreatesWitness ==
    /\ call.op = "Set" /\ Slot(call.action) # 0 /\ call.value # 0
    /\ Q[call.state] = [ZeroRow EXCEPT ![Slot(call.action)] = call.value]

\* Check has returned false for a state Get was called with before
CheckKeepsWitness ==
    /\ call.op = "Check" /\ ~call.ret /\ DOMAIN Q # {}

\* C33: Failed persists within an episode: once a state of the episode is
\* Failed, the state after every later Move, accepted or rejected, is
\* Failed, until Restart is called
FailedStays ==
    /\ []((Constructed /\ FailedAt >= 0) => Failed)
    /\ [][(Constructed /\ Failed /\ call'.op = "Move") => Failed']_vars

\* boxes have been pushed twice or more after the position was found
\* Failed, and the player can still move
FailedStaysWitness ==
    /\ Constructed /\ Failed /\ call.op = "Move" /\ call.ret
    /\ FailedAt >= 0 /\ TimeElapsed >= FailedAt + 2
    /\ BoxPos \cap BoxPos0 = {}
    /\ Directions # NoDirection

\* C34: cooperative cancellation of the loop around train(): the handler of
\* SIGINT sets the flag and writes neither the game nor the table; the loop
\* reads the flag only between two Train calls, so a Train call that has
\* begun is completed whatever the flag is, and the loop ends with no call
\* under way; and at most one Train call begins with the flag set
Cancellation ==
    /\ [][interrupted' # interrupted =>
             /\ interrupted'
             /\ UNCHANGED <<maze, error, fields, FailedAt, Q, epsilon, train_result, trained,
                            written, quiet, pc, pending, after>>]_vars
    /\ [][pending # {} =>
             \/ UNCHANGED <<fields, Q, train_result, trained, pc, pending>>
             \/ /\ pending' = {}
                /\ \E r \in pending : Q' = r.map /\ Self' = r.game
                /\ trained' = trained + 1]_vars
    /\ [][(pc' = "done" /\ pc # "done") =>
             (pc \in {"check", "loop"} /\ interrupted /\ pending = {}
              /\ UNCHANGED <<fields, Q, train_result, trained>>)]_vars
    /\ [](pending # {} => (pc \in {"quiet_train", "first_train", "loop_train"}
                           /\ \E r \in pending : Self = r.game))
    /\ [](pc = "done" => (interrupted /\ pending = {}))
    /\ [](after <= 1)
    /\ [][(interrupted /\ after = 1 /\ pending = {} /\ pc' # pc) =>
             pc' \in {"check", "done"}]_vars

\* the loop has ended after a SIGINT that came while a Train call was under
\* way, with the entry of that call in the table
CancellationWitness ==
    /\ pc = "done" /\ call.op = "SIGINT" /\ call.ret
    /\ trained >= 2 /\ DOMAIN Q # {}
    /\ train_result.Action # NoDirection /\ train_result.NewRow # train_result.OldRow

\* the loop has ended after one Train call that began with the flag set
CancellationLateWitness ==
    /\ pc = "done" /\ after = 1 /\ trained >= 2
====
